---------------------------- MODULE Spec2Model ----------------------------
(***************************************************************************)
(* A model of cotengra's hyper-optimizer (src/cotengra/hyper.py):          *)
(*   - HyperOptimizer._search and its two trial generators (sequential    *)
(*     and future-based parallel), with the history lists, `best`, the     *)
(*     time limit and the cancellation of pending futures;                 *)
(*   - ReusableHyperOptimizer: the hash of a contraction problem           *)
(*     (`_hash_args`, modes 'a' and 'b') and the path cache.               *)
(***************************************************************************)
EXTENDS Integers, Sequences, FiniteSets, TLC, Bags

(***************************************************************************)
(* Bounds of the model.                                                    *)
(***************************************************************************)
\* largest max_repeats an engine is constructed with
MaxRepeats == 2
\* trees a path finder can return are 1..MaxTree
MaxTree == 2
\* get_n_workers(pool)
NumWorkers == 1
\* largest fixed max_time (in clock ticks)
MaxTimeLimit == 1
\* search() calls made on one engine
Calls == 1..2
\* the rates of a 'rate:<r>' max_time
Rates == {1}
\* max_training_steps, when set, is 0..MaxTraining
MaxTraining == 1
\* how many calls one ReusableHyperOptimizer gets
MaxCalls == 3
\* a problem of the greedy path finders has 2..MaxNodes operands
MaxNodes == 4
\* the termination of GreedyCompressed is checked on up to MaxFairEdges indices
MaxFairEdges == 2
\* the stealing of merge targets is checked on graphs of StealNodes operands
\* and up to StealEdges indices, each on two operands
StealNodes == 5
StealEdges == 5
\* the scores a candidate contraction can get
Scores == {0, 1}
\* index labels are 1..MaxLabel
MaxLabel == 3
\* the dimension sizes of a size_dict
Sizes == {2, 3}
\* a problem has up to two input terms of up to two labels each
InputCounts == {1, 2}
TermLengths == {1, 2}
\* the labels of the problems whose keys are compared pairwise
MaxKeyLabel == 2

(***************************************************************************)
(* Program constants.                                                      *)
(***************************************************************************)
\* float('inf'), hyper.py:312-316
Inf == 1000
\* score_compression, an integer exponent here
score_compression == 2
\* max_repeats of the sequential/parallel comparison
EquivRepeats == 5

Max(a, b) == IF a >= b THEN a ELSE b
Min(a, b) == IF a <= b THEN a ELSE b
Range(s) == {s[i] : i \in 1..Len(s)}
RECURSIVE Pow(_, _)
Pow(x, n) == IF n = 0 THEN 1 ELSE x * Pow(x, n - 1)

VARIABLES
    \* ---- HyperOptimizer: constructor arguments
    parallel,            \* self._pool is not None
    max_repeats,
    max_time,            \* [kind: "none" | "fixed" | "rate", val]
    max_training_steps,  \* [set: BOOLEAN, val]
    \* ---- HyperOptimizer: history and best
    method_choices, param_choices, scores,
    costs_flops, costs_write, costs_size,
    best, best_score,
    \* ---- HyperOptimizer: the running search() call
    pc,                  \* "init" | "loop" | "body" | "exit" | "returned" | "raised"
    gen,                 \* position of the trial generator: "for" | "wait" | "drain"
    k,                   \* repeats consumed by the generator in this call
    trial,               \* the trial the generator yielded last
    elapsed,             \* time.time() - t0, saturating
    futures,             \* self._futures: sequence of [setting, future]
    ncalls,              \* search() calls started on this engine
    r_start,             \* len(self.scores) when the running call started
    nraised,             \* search() calls that raised
    failed,              \* id of the trial whose exception the last call raised
    \* ---- environment of the engine
    fut,                 \* the pool's futures, by id: [state, outcome, cancel_called]
    done_log,            \* ids of the held futures that are done, in completion order
    ngets,               \* calls of the sampler's get_setting
    reports,             \* ids of the trials given to the sampler's report_result
    \* ---- the caller of the engine
    calls,               \* the search() calls the caller makes: 1..n
    log_completions,     \* whether done_log is kept
    \* ---- harness of the sequential/parallel comparison
    script,              \* outcome of the n-th setting, or <<>> when outcomes are free
    seq_run,             \* what the sequential engine ended with
    \* ---- _hash_args applied to two problems
    hash_method, prob1, prob2, relation, key1, key2,
    \* ---- ReusableHyperOptimizer
    cache,               \* _cache: key -> [path, sliced_inds]
    n_opts,              \* how many HyperOptimizers were constructed
    active,              \* the engines in use
    overwrite,           \* of each engine: overwrite
    opt,                 \* of each engine: _opt, 0 for None
    rpc,                 \* of each engine: where its call stands
    rop,                 \* of each engine: "call" (__call__) or "search"
    rprob,               \* of each engine: the problem of its call
    rh, rmissing,        \* of each engine: h, missing
    rresult,             \* of each engine: what _compute_path returned
    rret,                \* of each engine: what its last call returned
    rcalls,              \* of each engine: how many calls it has begun
    snap,                \* of each engine: cache and n_opts when its call began
    computed,            \* every <<key, result>> a _compute_path has returned
    call_cap,            \* how many calls each engine gets
    \* ---- the greedy path finders
    hg0,                 \* the problem: n operands, the nodes of each index
    gc,                  \* GreedyCompressed.ssa_path: hg, candidates, ssapath, ...
    gs,                  \* GreedySpan.ssa_path: region, candidates, merges, seq, ...
    \* ---- one HyperOptimizer and one call of the trial function of setup()
    pl                   \* arguments, attributes, stages, the trial dict, its tree

engineVars == <<parallel, max_repeats, max_time, max_training_steps,
                method_choices, param_choices, scores,
                costs_flops, costs_write, costs_size, best, best_score,
                pc, gen, k, trial, elapsed, futures, ncalls, r_start,
                nraised, failed, fut, done_log, ngets, reports>>
harnessVars == <<calls, log_completions, script, seq_run>>
hashVars == <<hash_method, prob1, prob2, relation, key1, key2>>
reuseVars == <<cache, n_opts, active, overwrite, opt, rpc, rop, rprob, rh,
               rmissing, rresult, rret, rcalls, snap, computed, call_cap>>
greedyVars == <<hg0, gc, gs>>
vars == <<engineVars, harnessVars, hashVars, reuseVars, greedyVars, pl>>


(***************************************************************************)
(* The trial pipeline: find_tree wrapped by ComputeScore (setup() with no  *)
(* slicing or reconfiguration options).                                     *)
(***************************************************************************)
Methods == <<"greedy", "labels">>
Trees == 1..MaxTree

\* the cost model of a tree (an external collaborator of the engine)
TotalFlops(t) == t
TotalWrite(t) == 2 * t
MaxSize(t) == t + 1

\* what running one trial can give: a tree, or an exception
Outcomes == {[ok |-> TRUE, tree |-> t] : t \in Trees}
                \cup {[ok |-> FALSE, tree |-> 0]}
NoOutcome == [ok |-> FALSE, tree |-> 0]
OutcomeChoices(id) == IF script = <<>> THEN Outcomes ELSE {script[id]}

NoParams == [method |-> "", params |-> 0]

\* the trial dict returned by find_tree; `id` names the dict object
FindTree(id, t) ==
    [id |-> id, tree |-> t, flops |-> TotalFlops(t), write |-> TotalWrite(t),
     size |-> MaxSize(t), score |-> 0, params |-> NoParams]

\* get_score_fn('flops')
ScoreFn(tr) == tr.flops

ComputeScore(tr) == [tr EXCEPT !.score = Pow(ScoreFn(tr), score_compression)]

TrialFn(id, t) == ComputeScore(FindTree(id, t))

\* the sampler: the n-th get_setting of an engine returns the n-th setting
GetSetting(n) == [method |-> Methods[((n - 1) % Len(Methods)) + 1], params |-> n]

\* random.gauss(1.0, 1e-6): the jitter orders equal scores either way and
\* never reorders different scores
Jitters == {0, 1}
GetScore(tr, j) == Cardinality(Jitters) * tr.score + j

InitBest == [id |-> 0, tree |-> 0, flops |-> Inf, write |-> 0, size |-> Inf,
             score |-> Inf, params |-> NoParams]

PreDispatch == Max(NumWorkers + 4, (12 * NumWorkers) \div 10)

TimeLimits == {[kind |-> "none", val |-> 0]}
                \cup {[kind |-> "fixed", val |-> v] : v \in 0..MaxTimeLimit}
                \cup {[kind |-> "rate", val |-> r] : r \in Rates}

\* the clock is read only against max_time or best.flops / rate
ElapsedCap == Max(MaxTimeLimit, TotalFlops(MaxTree)) + 1
Advance(t) == IF max_time.kind = "none" THEN t ELSE Min(t + 1, ElapsedCap)

\* a faulty variant: the fixed limit trips one unit of time late
ReachedTimeLimitLate(b) ==
    CASE max_time.kind = "fixed" -> elapsed > max_time.val + 1
      [] max_time.kind = "rate"  -> elapsed * max_time.val > b.flops
      [] OTHER                   -> FALSE

\* a faulty variant: max_time tested for truth, so that 0 counts as no limit
ReachedTimeLimitTruthy(b) ==
    CASE max_time.kind = "fixed" -> max_time.val # 0 /\ elapsed > max_time.val
      [] max_time.kind = "rate"  -> elapsed * max_time.val > b.flops
      [] OTHER                   -> FALSE

ReachedTimeLimit(b) ==
    CASE max_time.kind = "fixed" -> elapsed > max_time.val
      [] max_time.kind = "rate"  -> elapsed * max_time.val > b.flops
      [] OTHER                   -> FALSE

IsDone(f) == fut[f].state = "done"

\* a future the engine holds no reference to any more
Dropped == [state |-> "dropped", outcome |-> NoOutcome, cancel_called |-> FALSE]
Held(fs) == {fs[i].future : i \in 1..Len(fs)}
Without(log, f) == SelectSeq(log, LAMBDA x : x # f)

\* the scan of _get_and_report_next_future: the first done future, in list order
NextDoneIndex(fs) ==
    CHOOSE i \in 1..Len(fs) :
        /\ IsDone(fs[i].future)
        /\ \A m \in 1..(i - 1) : ~IsDone(fs[m].future)

Last(s) == s[Len(s)]

\* a faulty variant: the setting of the oldest held future is reported
HeldSettingFirst(fs, i) == fs[1].setting

\* a faulty variant: the setting of the future submitted last is reported
HeldSettingLast(fs, i) == Last(fs).setting

\* the setting stored with the i-th held future
HeldSetting(fs, i) == fs[i].setting

RemoveAt(s, i) == SubSeq(s, 1, i - 1) \o SubSeq(s, i + 1, Len(s))

\* a faulty variant: a new best past the training steps is not reported
ShouldReportInTraining(new_best) ==
    \/ ~max_training_steps.set
    \/ Len(scores) < max_training_steps.val

\* whether the sampler is trained on a result
ShouldReport(new_best) ==
    \/ ~max_training_steps.set
    \/ Len(scores) < max_training_steps.val
    \/ new_best

NewBest(score) == score < best_score

MaybeReportResult(setting, tr, j) ==
    LET score == GetScore(tr, j)
        new_best == NewBest(score)
    IN /\ best_score' = IF new_best THEN score ELSE best_score
       /\ reports' = IF ShouldReport(new_best) THEN Append(reports, tr.id)
                     ELSE reports
       /\ method_choices' = Append(method_choices, setting.method)
       /\ param_choices' = Append(param_choices, setting.params)

histVars == <<scores, costs_flops, costs_write, costs_size, best>>
reportVars == <<best_score, reports, method_choices, param_choices>>
configVars == <<parallel, max_repeats, max_time, max_training_steps>>
callVars == <<ncalls, r_start>>
raiseVars == <<nraised, failed>>
otherVars == <<harnessVars, hashVars, reuseVars, greedyVars, pl>>

(***************************************************************************)
(* HyperOptimizer._search                                                  *)
(***************************************************************************)
StartSearch ==
    /\ pc \in {"init", "returned", "raised"}
    /\ ncalls + 1 \in calls
    /\ ncalls' = ncalls + 1
    /\ r_start' = Len(scores)
    /\ failed' = 0
    /\ pc' = "loop"
    /\ gen' = "for"
    /\ k' = 0
    /\ elapsed' = 0
    /\ futures' = <<>>
    /\ fut' = [f \in DOMAIN fut |-> Dropped]
    /\ done_log' = <<>>
    /\ UNCHANGED <<configVars, histVars, reportVars, trial, nraised, ngets,
                   otherVars>>

\* a faulty variant: the exception of a trial is swallowed and the loop goes on
PropagateSwallowed(f) ==
    /\ pc' = "loop"
    /\ UNCHANGED raiseVars

\* the exception of trial f leaves the generator, the for loop and _search
Propagate(f) ==
    /\ pc' = "raised"
    /\ nraised' = nraised + 1
    /\ failed' = f

\* one iteration of _gen_results, up to its yield
SeqTrial ==
    /\ pc = "loop" /\ ~parallel /\ k < max_repeats
    /\ ngets' = ngets + 1
    /\ k' = k + 1
    /\ elapsed' = Advance(elapsed)
    /\ \E o \in OutcomeChoices(ngets + 1) :
          IF o.ok
          THEN \E j \in Jitters :
                  LET tr == TrialFn(ngets + 1, o.tree)
                  IN /\ MaybeReportResult(GetSetting(ngets + 1), tr, j)
                     /\ trial' = tr
                     /\ pc' = "body"
                     /\ UNCHANGED raiseVars
          ELSE /\ Propagate(ngets + 1)
               /\ UNCHANGED <<reportVars, trial>>
    /\ UNCHANGED <<configVars, histVars, gen, futures, callVars, fut,
                   done_log, otherVars>>

\* a faulty variant: the window is taken as full one future later
WindowFullLate(n) == n > PreDispatch

\* len(self._futures) >= self.pre_dispatch
WindowFull(n) == n >= PreDispatch

\* one iteration of the for loop of _gen_results_parallel, up to its yield
Submit ==
    /\ pc = "loop" /\ parallel /\ gen = "for" /\ k < max_repeats
    /\ ngets' = ngets + 1
    /\ k' = k + 1
    /\ elapsed' = Advance(elapsed)
    /\ futures' = Append(futures, [setting |-> GetSetting(ngets + 1),
                                   future |-> ngets + 1])
    /\ fut' = Append(fut, [state |-> "pending", outcome |-> NoOutcome,
                           cancel_called |-> FALSE])
    /\ gen' = IF WindowFull(Len(futures) + 1) THEN "wait"
              ELSE IF k + 1 = max_repeats THEN "drain" ELSE "for"
    /\ UNCHANGED <<configVars, histVars, reportVars, pc, trial, callVars,
                   raiseVars, done_log, otherVars>>

\* a worker of the pool finishes a trial
Complete ==
    \E f \in Held(futures) :
        /\ fut[f].state = "pending"
        /\ \E o \in OutcomeChoices(f) :
              fut' = [fut EXCEPT ![f].state = "done", ![f].outcome = o]
        /\ done_log' = IF log_completions THEN Append(done_log, f) ELSE done_log
        /\ UNCHANGED <<configVars, histVars, reportVars, pc, gen, k, trial,
                       elapsed, futures, callVars, raiseVars, ngets,
                       otherVars>>

\* _get_and_report_next_future finds a done future
Report ==
    /\ pc = "loop" /\ parallel /\ gen \in {"wait", "drain"}
    /\ \E i \in 1..Len(futures) : IsDone(futures[i].future)
    /\ LET i == NextDoneIndex(futures)
           setting == HeldSetting(futures, i)
           f == futures[i].future
           o == fut[f].outcome
       IN /\ futures' = RemoveAt(futures, i)
          /\ done_log' = Without(done_log, f)
          /\ IF o.ok
             THEN \E j \in Jitters :
                     LET tr == TrialFn(f, o.tree)
                     IN /\ MaybeReportResult(setting, tr, j)
                        /\ trial' = tr
                        /\ pc' = "body"
                        /\ gen' = IF gen = "wait" /\ k < max_repeats
                                  THEN "for" ELSE "drain"
                        /\ UNCHANGED raiseVars
             ELSE /\ Propagate(f)
                  /\ UNCHANGED <<reportVars, trial, gen>>
    /\ UNCHANGED <<configVars, histVars, k, elapsed, callVars, fut, ngets,
                   otherVars>>

\* a faulty variant: the parallel generator ends without draining its futures
ExhaustedNoDrain ==
    /\ pc = "loop"
    /\ \/ ~parallel /\ k = max_repeats
       \/ parallel /\ gen = "drain"
    /\ pc' = "exit"
    /\ UNCHANGED <<configVars, histVars, reportVars, gen, k, trial, elapsed,
                   futures, callVars, raiseVars, fut, done_log, ngets,
                   otherVars>>

\* the generator is exhausted: the for loop of _search ends
Exhausted ==
    /\ pc = "loop"
    /\ \/ ~parallel /\ k = max_repeats
       \/ parallel /\ gen = "drain" /\ futures = <<>>
    /\ pc' = "exit"
    /\ UNCHANGED <<configVars, histVars, reportVars, gen, k, trial, elapsed,
                   futures, callVars, raiseVars, fut, done_log, ngets,
                   otherVars>>

\* a faulty variant: the params are read one entry before the end of the lists
UpdateBestStaleParams(tr) ==
    IF tr.score < best.score
    THEN LET n == Max(1, Len(param_choices) - 1)
         IN [tr EXCEPT !.params = [method |-> method_choices[n],
                                   params |-> param_choices[n]]]
    ELSE best

\* a faulty variant: a tie replaces the best
UpdateBestOnTie(tr) ==
    IF tr.score <= best.score
    THEN [tr EXCEPT !.params = [method |-> Last(method_choices),
                                params |-> Last(param_choices)]]
    ELSE best

UpdateBest(tr) ==
    IF tr.score < best.score
    THEN [tr EXCEPT !.params = [method |-> Last(method_choices),
                                params |-> Last(param_choices)]]
    ELSE best

\* the body of the for loop of _search
Record ==
    /\ pc = "body"
    /\ costs_flops' = Append(costs_flops, trial.flops)
    /\ costs_write' = Append(costs_write, trial.write)
    /\ costs_size' = Append(costs_size, trial.size)
    /\ scores' = Append(scores, trial.score)
    /\ best' = UpdateBest(trial)
    /\ pc' = IF ReachedTimeLimit(best') THEN "exit" ELSE "loop"
    /\ UNCHANGED <<configVars, reportVars, gen, k, trial, elapsed, futures,
                   callVars, raiseVars, fut, done_log, ngets, otherVars>>

Cancel(f) == [f EXCEPT !.cancel_called = TRUE,
                       !.state = IF @ = "pending" THEN "cancelled" ELSE @]

\* a faulty variant: `if` for `while`, only the last future is cancelled
CancelLast(fs) ==
    [f \in DOMAIN fut |->
        IF fs # <<>> /\ Last(fs).future = f THEN Cancel(fut[f]) ELSE fut[f]]

CancelAll(fs) ==
    [f \in DOMAIN fut |->
        IF \E i \in 1..Len(fs) : fs[i].future = f THEN Cancel(fut[f]) ELSE fut[f]]

\* _maybe_cancel_futures, then _search returns
MaybeCancelFutures ==
    /\ pc = "exit"
    /\ fut' = IF parallel THEN CancelAll(futures) ELSE fut
    /\ futures' = <<>>
    /\ done_log' = <<>>
    /\ pc' = "returned"
    /\ UNCHANGED <<configVars, histVars, reportVars, gen, k, trial, elapsed,
                   callVars, raiseVars, ngets, otherVars>>

\* time passes while search() runs (time.sleep of the busy poll included)
Tick ==
    /\ pc = "loop"
    /\ max_time.kind # "none"
    /\ elapsed < ElapsedCap
    /\ elapsed' = elapsed + 1
    /\ UNCHANGED <<configVars, histVars, reportVars, pc, gen, k, trial,
                   futures, callVars, raiseVars, fut, done_log, ngets,
                   otherVars>>

(***************************************************************************)
(* Initial states                                                          *)
(***************************************************************************)
NoProblem == [inputs |-> <<>>, output |-> <<>>, size_dict |-> <<>>]

\* HyperOptimizer.__init__
NewEngine(par, rep, mt, mts) ==
    /\ parallel = par /\ max_repeats = rep /\ max_time = mt
    /\ max_training_steps = mts
    /\ method_choices = <<>> /\ param_choices = <<>> /\ scores = <<>>
    /\ costs_flops = <<>> /\ costs_write = <<>> /\ costs_size = <<>>
    /\ best = InitBest /\ best_score = Cardinality(Jitters) * Inf
    /\ pc = "init" /\ gen = "for" /\ k = 0 /\ trial = InitBest /\ elapsed = 0
    /\ futures = <<>> /\ ncalls = 0 /\ r_start = 0 /\ nraised = 0 /\ failed = 0
    /\ fut = <<>> /\ done_log = <<>> /\ ngets = 0 /\ reports = <<>>

NoHarness == script = <<>> /\ seq_run = <<>>

NoGraph == [n |-> 0, edges |-> {}, output_nodes |-> {}]
NoPipeline == pl = [pc |-> "off"]
NoGreedy == hg0 = NoGraph /\ gc = [pc |-> "off"] /\ gs = [pc |-> "off"]

NoHash ==
    /\ hash_method = "a" /\ prob1 = NoProblem /\ prob2 = NoProblem
    /\ relation = "" /\ key1 = <<>> /\ key2 = <<>>

ReuseEngines == {"e1", "e2"}
NoEntry == [path |-> [n |-> 0, tree |-> 0], sliced_inds |-> {}]
NoReturn == [kind |-> "none", path |-> NoEntry.path]

\* ReusableHyperOptimizer.__init__, on an empty cache
NewReuse(act, ow, cap) ==
    /\ cache = <<>> /\ n_opts = 0
    /\ call_cap = cap
    /\ active = act
    /\ overwrite = ow
    /\ opt = [e \in ReuseEngines |-> 0]
    /\ rpc = [e \in ReuseEngines |-> "idle"]
    /\ rop = [e \in ReuseEngines |-> "call"]
    /\ rprob = [e \in ReuseEngines |-> NoProblem]
    /\ rh = [e \in ReuseEngines |-> <<>>]
    /\ rmissing = [e \in ReuseEngines |-> FALSE]
    /\ rresult = [e \in ReuseEngines |-> NoEntry]
    /\ rret = [e \in ReuseEngines |-> NoReturn]
    /\ rcalls = [e \in ReuseEngines |-> 0]
    /\ snap = [e \in ReuseEngines |-> [cache |-> <<>>, n_opts |-> 0]]
    /\ computed = {}

NoReuse == NewReuse({}, [e \in ReuseEngines |-> FALSE], 0)

NoTraining == [set |-> FALSE, val |-> 0]
NoLimit == [kind |-> "none", val |-> 0]

Init ==
    /\ \E par \in BOOLEAN, rep \in 1..MaxRepeats, mt \in TimeLimits :
          NewEngine(par, rep, mt, NoTraining)
    /\ calls = Calls /\ log_completions = TRUE
    /\ NoPipeline /\ NoHarness /\ NoHash /\ NoReuse /\ NoGreedy

\* a parallel engine with one more repeat, called once
InitPar ==
    /\ \E mt \in TimeLimits : NewEngine(TRUE, MaxRepeats + 1, mt, NoTraining)
    /\ calls = {1} /\ log_completions = TRUE
    /\ NoPipeline /\ NoHarness /\ NoHash /\ NoReuse /\ NoGreedy

Next ==
    \/ StartSearch
    \/ SeqTrial
    \/ Submit
    \/ Complete
    \/ Report
    \/ Exhausted
    \/ Record
    \/ MaybeCancelFutures
    \/ Tick

Spec == Init /\ [][Next]_vars

NextPar ==
    \/ StartSearch
    \/ Submit
    \/ Complete
    \/ Report
    \/ Exhausted
    \/ Record
    \/ MaybeCancelFutures
    \/ Tick

SpecPar == InitPar /\ [][NextPar]_vars

\* an engine of either mode with max_training_steps set or unset, no time
\* limit, called once
InitTrain ==
    /\ \E par \in BOOLEAN,
          mts \in {NoTraining}
                   \cup {[set |-> TRUE, val |-> v] : v \in 0..MaxTraining} :
          NewEngine(par, MaxRepeats + 1, NoLimit, mts)
    /\ calls = {1} /\ log_completions = FALSE
    /\ NoPipeline /\ NoHarness /\ NoHash /\ NoReuse /\ NoGreedy

NextTrain ==
    \/ StartSearch
    \/ SeqTrial
    \/ Submit
    \/ Complete
    \/ Report
    \/ Exhausted
    \/ Record
    \/ MaybeCancelFutures

SpecTrain == InitTrain /\ [][NextTrain]_vars

\* a parallel engine with more repeats than its window of futures holds, no
\* time limit, called once
InitWindow ==
    /\ NewEngine(TRUE, PreDispatch + 1, NoLimit, NoTraining)
    /\ calls = {1} /\ log_completions = FALSE
    /\ NoPipeline /\ NoHarness /\ NoHash /\ NoReuse /\ NoGreedy

NextWindow ==
    \/ StartSearch
    \/ Submit
    \/ Complete
    \/ Report
    \/ Exhausted
    \/ Record
    \/ MaybeCancelFutures

SpecWindow == InitWindow /\ [][NextWindow]_vars


(***************************************************************************)
(* ReusableHyperOptimizer._hash_args                                       *)
(*                                                                         *)
(* A problem is [inputs, output, size_dict]: inputs a sequence of terms, a *)
(* term and the output sequences of labels, size_dict the sequence of its  *)
(* items [k, v] in the order of the dict, a value v = [val, native] with   *)
(* native = isinstance(v, int).  pickle.dumps and sha1 are injective: a    *)
(* key is the tuple that is pickled, and a native and a foreign integer of *)
(* one value pickle differently.                                           *)
(***************************************************************************)
Labels == 1..MaxLabel

\* the arrangements of the elements of a sequence
Arrangements(s) ==
    {[i \in 1..Len(s) |-> s[p[i]]] : p \in Permutations(1..Len(s))}

\* Python's order of tuples of integers
LexLess(a, b) ==
    \E n \in 1..(Min(Len(a), Len(b)) + 1) :
        /\ \A m \in 1..(n - 1) : a[m] = b[m]
        /\ IF n <= Len(a) /\ n <= Len(b) THEN a[n] < b[n]
           ELSE n > Len(a) /\ n <= Len(b)

\* sortedtuple(x) for x of integers, of tuples of integers, of dict items
SortedInts(s) ==
    CHOOSE t \in Arrangements(s) : \A i \in 1..(Len(t) - 1) : t[i] <= t[i + 1]
SortedTuples(s) ==
    CHOOSE t \in Arrangements(s) :
        \A i \in 1..(Len(t) - 1) : ~LexLess(t[i + 1], t[i])
SortedItems(sd) ==
    CHOOSE t \in Arrangements(sd) :
        \A i \in 1..(Len(t) - 1) : t[i].k <= t[i + 1].k

\* int(v)
ToInt(v) == [val |-> v.val, native |-> TRUE]
CoerceAll(sd) == [i \in 1..Len(sd) |-> [k |-> sd[i].k, v |-> ToInt(sd[i].v)]]

\* the size_dict that is hashed: coerced when its first value is no int
Coerced(sd) == IF ~sd[1].v.native THEN CoerceAll(sd) ELSE sd

RECURSIVE Concat(_)
Concat(ss) == IF ss = <<>> THEN <<>> ELSE Head(ss) \o Concat(Tail(ss))

RECURSIVE Distinct(_)
\* the elements of s, each once, in the order of their first occurrence
Distinct(s) ==
    IF s = <<>> THEN <<>>
    ELSE LET rest == Distinct(SubSeq(s, 1, Len(s) - 1))
         IN IF Last(s) \in Range(rest) THEN rest ELSE Append(rest, Last(s))

\* edges[ix]: -1 for each occurrence in the output, then the position of
\* each term that holds ix, once for each occurrence
Incidence(prob, ix) ==
    [i \in 1..Len(SelectSeq(prob.output, LAMBDA x : x = ix)) |-> -1]
    \o Concat([i \in 1..Len(prob.inputs) |->
                 [m \in 1..Len(SelectSeq(prob.inputs[i], LAMBDA x : x = ix))
                     |-> i - 1]])

\* edges.values(), in the order the keys were inserted
EdgeValues(prob) ==
    LET ixs == Distinct(prob.output \o Concat(prob.inputs))
    IN [i \in 1..Len(ixs) |-> Incidence(prob, ixs[i])]

CanonicalEdges(prob) ==
    SortedTuples([i \in 1..Len(EdgeValues(prob)) |->
                     SortedInts(EdgeValues(prob)[i])])

HashArgs(method, prob) ==
    LET size_dict == Coerced(prob.size_dict)
    IN IF method = "a"
       THEN <<[i \in 1..Len(prob.inputs) |-> SortedInts(prob.inputs[i])],
              SortedInts(prob.output),
              SortedItems(size_dict)>>
       ELSE <<CanonicalEdges(prob), SortedItems(size_dict)>>

\* ---- the problems _hash_args is applied to
SeqsOver(S, lens) == UNION {[1..n -> S] : n \in lens}
Terms == SeqsOver(Labels, TermLengths)
Outputs == {<<>>} \cup {<<x>> : x \in Labels}
UsedLabels(ins, out) == Range(out \o Concat(ins))

\* the size dicts over a set of labels, native integers, in label order
SizeDicts(L) ==
    LET ks == SortedInts(CHOOSE t \in [1..Cardinality(L) -> L] : Range(t) = L)
    IN {[i \in 1..Len(ks) |-> [k |-> ks[i],
                               v |-> [val |-> f[i], native |-> TRUE]]] :
           f \in [1..Len(ks) -> Sizes]}

Problems ==
    {[inputs |-> ins, output |-> out, size_dict |-> sd] :
        ins \in SeqsOver(Terms, InputCounts), out \in Outputs,
        sd \in UNION {SizeDicts(L) : L \in SUBSET Labels \ {{}}}}
\* the output's labels are labels of the inputs, and size_dict has the size
\* of every label
ValidProblems ==
    {q \in Problems :
        /\ Range(q.output) \subseteq Range(Concat(q.inputs))
        /\ {q.size_dict[i].k : i \in 1..Len(q.size_dict)}
               = UsedLabels(q.inputs, q.output)}

\* the same renaming applied to inputs, output and size map
Rename(prob, pi) ==
    [inputs |-> [i \in 1..Len(prob.inputs) |->
                    [m \in 1..Len(prob.inputs[i]) |-> pi[prob.inputs[i][m]]]],
     output |-> [m \in 1..Len(prob.output) |-> pi[prob.output[m]]],
     size_dict |-> [i \in 1..Len(prob.size_dict) |->
                       [k |-> pi[prob.size_dict[i].k],
                        v |-> prob.size_dict[i].v]]]

\* the same sizes, each held as a native or as a foreign integer
Retype(prob, nat) ==
    [prob EXCEPT !.size_dict =
        [i \in 1..Len(prob.size_dict) |->
            [k |-> prob.size_dict[i].k,
             v |-> [val |-> prob.size_dict[i].v.val, native |-> nat[i]]]]]

Renamings == {pi \in [Labels -> Labels] : Range(pi) = Labels}

InitHash ==
    /\ hash_method \in {"a", "b"}
    /\ \E q \in ValidProblems :
          \/ /\ relation = "renamed"
             /\ prob1 = q
             /\ \E pi \in Renamings : prob2 = Rename(q, pi)
          \/ /\ relation = "retyped"
             /\ \E n1, n2 \in [1..Len(q.size_dict) -> BOOLEAN] :
                   prob1 = Retype(q, n1) /\ prob2 = Retype(q, n2)
    /\ key1 = <<>> /\ key2 = <<>>
    /\ NewEngine(FALSE, 1, NoLimit, NoTraining)
    /\ calls = {} /\ log_completions = FALSE
    /\ NoPipeline /\ NoHarness /\ NoReuse /\ NoGreedy

HashFirst ==
    /\ key1 = <<>>
    /\ key1' = <<HashArgs(hash_method, prob1)>>
    /\ UNCHANGED <<engineVars, pl, greedyVars, harnessVars, reuseVars, hash_method, prob1,
                   prob2, relation, key2>>

HashSecond ==
    /\ key1 # <<>> /\ key2 = <<>>
    /\ key2' = <<HashArgs(hash_method, prob2)>>
    /\ UNCHANGED <<engineVars, pl, greedyVars, harnessVars, reuseVars, hash_method, prob1,
                   prob2, relation, key1>>

NextHash ==
    \/ HashFirst
    \/ HashSecond

SpecHash == InitHash /\ [][NextHash]_vars

\* ---- any two problems, operands without indices (scalars) included
KeyLabels == 1..MaxKeyLabel
KeyTerms == {t \in Terms : Range(t) \subseteq KeyLabels} \cup {<<>>}
KeyProblems ==
    {[inputs |-> ins, output |-> out, size_dict |-> sd] :
        ins \in SeqsOver(KeyTerms, InputCounts),
        out \in {o \in Outputs : Range(o) \subseteq KeyLabels},
        sd \in UNION {SizeDicts(L) : L \in SUBSET KeyLabels \ {{}}}}
ValidKeyProblems ==
    {q \in KeyProblems :
        /\ Range(q.output) \subseteq Range(Concat(q.inputs))
        /\ {q.size_dict[i].k : i \in 1..Len(q.size_dict)}
               = UsedLabels(q.inputs, q.output)}

InitKeys ==
    /\ hash_method \in {"a", "b"}
    /\ relation = "any"
    /\ prob1 \in ValidKeyProblems /\ prob2 \in ValidKeyProblems
    /\ key1 = <<>> /\ key2 = <<>>
    /\ NewEngine(FALSE, 1, NoLimit, NoTraining)
    /\ calls = {} /\ log_completions = FALSE
    /\ NoPipeline /\ NoHarness /\ NoReuse /\ NoGreedy

SpecKeys == InitKeys /\ [][NextHash]_vars

(***************************************************************************)
(* ReusableHyperOptimizer: __call__, search, cleanup                       *)
(*                                                                         *)
(* A call is the steps of its code: _hash_and_query, then on a miss        *)
(* _compute_path and the write of the cache, then the return.  The search  *)
(* of _compute_path is one step that ends with any tree, or raises.        *)
(***************************************************************************)
\* the problems the engines are called with: ProblemB is ProblemA with the
\* labels of each term in another order, ProblemC has one term less
SizesOf(ixs) ==
    [i \in 1..Len(ixs) |-> [k |-> ixs[i], v |-> [val |-> 2, native |-> TRUE]]]
ProblemA ==
    [inputs |-> <<<<1, 2>>, <<2, 3>>>>, output |-> <<>>,
     size_dict |-> SizesOf(<<1, 2, 3>>)]
ProblemB ==
    [inputs |-> <<<<2, 1>>, <<3, 2>>>>, output |-> <<>>,
     size_dict |-> SizesOf(<<3, 2, 1>>)]
ProblemC ==
    [inputs |-> <<<<1, 2>>>>, output |-> <<>>, size_dict |-> SizesOf(<<1, 2>>)]
ReuseProblems == {ProblemA, ProblemB, ProblemC}

\* the linear path of a tree over the operands of a problem
PathOf(prob, t) == [n |-> Len(prob.inputs), tree |-> t]

\* a faulty variant: an entry already in the cache is kept
PutIfAbsent(c, h, entry) ==
    [x \in DOMAIN c \cup {h} |-> IF x \in DOMAIN c THEN c[x] ELSE entry]

Put(c, h, entry) ==
    [x \in DOMAIN c \cup {h} |-> IF x = h THEN entry ELSE c[x]]

\* a faulty variant: missing is always true
MissingAlways(e, h) == TRUE

Missing(e, h) == overwrite[e] \/ h \notin DOMAIN cache

HashAndQuery(e) ==
    /\ e \in active /\ rpc[e] = "idle" /\ rcalls[e] < call_cap
    /\ \E prob \in ReuseProblems, o \in {"call", "search"} :
          LET h == HashArgs(hash_method, prob)
          IN /\ rprob' = [rprob EXCEPT ![e] = prob]
             /\ rop' = [rop EXCEPT ![e] = o]
             /\ rh' = [rh EXCEPT ![e] = h]
             /\ rmissing' = [rmissing EXCEPT ![e] = Missing(e, h)]
    /\ rpc' = [rpc EXCEPT ![e] = "queried"]
    /\ rcalls' = [rcalls EXCEPT ![e] = @ + 1]
    /\ snap' = [snap EXCEPT ![e] = [cache |-> cache, n_opts |-> n_opts]]
    /\ UNCHANGED <<engineVars, pl, greedyVars, harnessVars, hashVars>>
    /\ UNCHANGED <<cache, n_opts, active, overwrite, opt, rresult, rret,
                   computed, call_cap>>

ComputePath(e) ==
    /\ rpc[e] = "queried" /\ rmissing[e]
    /\ n_opts' = n_opts + 1
    /\ opt' = [opt EXCEPT ![e] = n_opts + 1]
    /\ \/ \E t \in Trees :
             /\ rresult' = [rresult EXCEPT ![e] =
                               [path |-> PathOf(rprob[e], t),
                                sliced_inds |-> {}]]
             /\ computed' = computed \cup
                    {<<rh[e], [path |-> PathOf(rprob[e], t),
                               sliced_inds |-> {}]>>}
             /\ rpc' = [rpc EXCEPT ![e] = "computed"]
             /\ UNCHANGED rret
       \/ /\ rpc' = [rpc EXCEPT ![e] = "idle"]
          /\ rret' = [rret EXCEPT ![e] = [NoReturn EXCEPT !.kind = "raised"]]
          /\ UNCHANGED <<rresult, computed>>
    /\ UNCHANGED <<engineVars, pl, greedyVars, harnessVars, hashVars>>
    /\ UNCHANGED <<cache, active, overwrite, rop, rprob, rh, rmissing,
                   rcalls, snap, call_cap>>

Store(e) ==
    /\ rpc[e] = "computed"
    /\ cache' = Put(cache, rh[e], rresult[e])
    /\ rpc' = [rpc EXCEPT ![e] = "stored"]
    /\ UNCHANGED <<engineVars, pl, greedyVars, harnessVars, hashVars>>
    /\ UNCHANGED <<n_opts, active, overwrite, opt, rop, rprob, rh, rmissing,
                   rresult, rret, rcalls, snap,
                   computed, call_cap>>

\* a faulty variant: the call returns what its own _compute_path returned
ReturnedOwn(e) ==
    [kind |-> IF rop[e] = "call" THEN "path" ELSE "tree",
     path |-> rresult[e].path]

\* what the call returns: the cached path, the tree of the optimizer that
\* just ran, or the tree rebuilt from the cached path
Returned(e) ==
    IF rop[e] = "search" /\ rmissing[e]
    THEN [kind |-> "tree", path |-> rresult[e].path]
    ELSE IF rh[e] \notin DOMAIN cache
    THEN [NoReturn EXCEPT !.kind = "KeyError"]
    ELSE [kind |-> IF rop[e] = "call" THEN "path" ELSE "tree",
          path |-> cache[rh[e]].path]

Return(e) ==
    /\ \/ rpc[e] = "queried" /\ ~rmissing[e]
       \/ rpc[e] = "stored"
    /\ rret' = [rret EXCEPT ![e] = Returned(e)]
    /\ rpc' = [rpc EXCEPT ![e] = "idle"]
    /\ UNCHANGED <<engineVars, pl, greedyVars, harnessVars, hashVars>>
    /\ UNCHANGED <<cache, n_opts, active, overwrite, opt, rop, rprob, rh,
                   rmissing, rresult, rcalls, snap,
                   computed, call_cap>>

Cleanup(e) ==
    /\ e \in active /\ rpc[e] = "idle" /\ cache # <<>>
    /\ cache' = <<>>
    /\ UNCHANGED <<engineVars, pl, greedyVars, harnessVars, hashVars>>
    /\ UNCHANGED <<n_opts, active, overwrite, opt, rpc, rop, rprob, rh,
                   rmissing, rresult, rret, rcalls, snap,
                   computed, call_cap>>

InitReuse ==
    /\ hash_method \in {"a", "b"}
    /\ prob1 = NoProblem /\ prob2 = NoProblem
    /\ relation = "" /\ key1 = <<>> /\ key2 = <<>>
    /\ \E ow \in BOOLEAN :
          NewReuse({"e1"}, [e \in ReuseEngines |-> ow], MaxCalls)
    /\ NewEngine(FALSE, 1, NoLimit, NoTraining)
    /\ calls = {} /\ log_completions = FALSE
    /\ NoPipeline /\ NoHarness /\ NoGreedy

NextReuse ==
    \/ \E e \in ReuseEngines : HashAndQuery(e)
    \/ \E e \in ReuseEngines : ComputePath(e)
    \/ \E e \in ReuseEngines : Store(e)
    \/ \E e \in ReuseEngines : Return(e)
    \/ \E e \in ReuseEngines : Cleanup(e)

SpecReuse == InitReuse /\ [][NextReuse]_vars

(***************************************************************************)
(* Two ReusableHyperOptimizers on one cache, each called once, their calls *)
(* interleaved step by step.                                               *)
(***************************************************************************)
InitRace ==
    /\ hash_method \in {"a", "b"}
    /\ prob1 = NoProblem /\ prob2 = NoProblem
    /\ relation = "" /\ key1 = <<>> /\ key2 = <<>>
    /\ \E ow \in [ReuseEngines -> BOOLEAN] : NewReuse(ReuseEngines, ow, 1)
    /\ NewEngine(FALSE, 1, NoLimit, NoTraining)
    /\ calls = {} /\ log_completions = FALSE
    /\ NoPipeline /\ NoHarness /\ NoGreedy

NextRace ==
    \/ \E e \in ReuseEngines : HashAndQuery(e)
    \/ \E e \in ReuseEngines : ComputePath(e)
    \/ \E e \in ReuseEngines : Store(e)
    \/ \E e \in ReuseEngines : Return(e)

SpecRace == InitRace /\ [][NextRace]_vars

(***************************************************************************)
(* The hypergraph of a problem                                             *)
(*                                                                         *)
(* Operand i is node i, 0 <= i < n.  An index is an edge, the set of the   *)
(* nodes that hold it; indices of one node set are one edge.  output_nodes *)
(* are the nodes that hold an output index.                                *)
(***************************************************************************)
NodeIds(n) == 0..(n - 1)
Pairs(S) == {e \in SUBSET S : Cardinality(e) = 2}
\* the edges a problem can have: every pair, and one index on three nodes
PossibleEdges(n) == Pairs(NodeIds(n)) \cup {e \in {{0, 1, 2}} : n >= 3}
Hypergraphs ==
    {[n |-> n, edges |-> es, output_nodes |-> out] :
        n \in 2..MaxNodes, es \in SUBSET PossibleEdges(MaxNodes),
        out \in SUBSET NodeIds(MaxNodes)}
ValidHypergraphs ==
    {h \in Hypergraphs :
        /\ h.edges \subseteq PossibleEdges(h.n)
        /\ h.output_nodes \subseteq NodeIds(h.n)}

\* hg.neighbors(i)
Neighbors(edges, i) == UNION {e \in edges : i \in e} \ {i}

RECURSIVE Reach(_, _)
\* the nodes connected to a node of R
Reach(edges, R) ==
    LET more == R \cup UNION {Neighbors(edges, i) : i \in R}
    IN IF more = R THEN R ELSE Reach(edges, more)
Connected(h) == Reach(h.edges, {0}) = NodeIds(h.n)

(***************************************************************************)
(* GreedyCompressed.ssa_path                                               *)
(*                                                                         *)
(* gc.nodes is hg.nodes in the order of the dict, gc.edges the edges of    *)
(* two or more nodes, gc.candidates the heap as a bag of <<score, i1, i2>>.*)
(* _score depends on sizes, centralities and noise: any of Scores.         *)
(* gc.fresh is no variable of the program: of every pair of live nodes it  *)
(* holds the entries the scan that scored the pair last has pushed.        *)
(***************************************************************************)
\* the pushes of one scan: an entry for every two nodes of every edge of es
Pushes(es) ==
    {t \in es \X (UNION es) \X (UNION es) :
        t[2] \in t[1] /\ t[3] \in t[1] /\ t[2] < t[3]}

\* the heap entries of the pushes T whose scores are sc
Entries(T, sc) ==
    LET entry(t) == <<sc[t], t[2], t[3]>>
    IN [c \in {entry(t) : t \in T} |->
           Cardinality({t \in T : entry(t) = c})]

\* heapq.heappop: the least entry
HeapMin(B) ==
    CHOOSE c \in BagToSet(B) : \A d \in BagToSet(B) : ~LexLess(d, c)
HeapPop(B) == B (-) SetToBag({HeapMin(B)})

HasNode(i) == i \in Range(gc.nodes)

\* hg.contract(i1, i2) as i12, then hg.compress: the edges of the new graph
ContractEdges(es, i1, i2, i12) ==
    LET moved(e) == IF e \cap {i1, i2} = {} THEN e
                    ELSE (e \ {i1, i2}) \cup {i12}
    IN {e \in {moved(e) : e \in es} : Cardinality(e) >= 2}

GCInitial(h) ==
    [pc |-> "init",
     nodes |-> [i \in 1..h.n |-> i - 1],
     edges |-> h.edges,
     candidates |-> EmptyBag,
     ssapath |-> <<>>,
     sgsizes |-> [i \in NodeIds(h.n) |-> 1],
     sgcents |-> [i \in NodeIds(h.n) |-> 0],
     next |-> h.n,
     fresh |-> {}]

\* populate initial scores with contractions among leaves
GCPopulate ==
    /\ gc.pc = "init"
    /\ \E sc \in [Pushes(gc.edges) -> Scores] :
          gc' = [gc EXCEPT !.pc = "loop",
                           !.candidates = Entries(Pushes(gc.edges), sc),
                           !.fresh = BagToSet(Entries(Pushes(gc.edges), sc))]
    /\ UNCHANGED <<engineVars, pl, harnessVars, hashVars, reuseVars, hg0, gs>>

\* a faulty variant: the loop ends with three nodes left
MoreToContractThree(num_nodes) == num_nodes > 3

\* while self.hg.get_num_nodes() > 2
MoreToContract(num_nodes) == num_nodes > 2

\* the pair of this iteration: any two nodes when the heap is empty
NextPair ==
    IF gc.candidates = EmptyBag THEN <<gc.nodes[1], gc.nodes[2]>>
    ELSE <<HeapMin(gc.candidates)[2], HeapMin(gc.candidates)[3]>>
\* a faulty variant: the popped entry stays in the heap
AfterPopKept == gc.candidates

AfterPop ==
    IF gc.candidates = EmptyBag THEN EmptyBag ELSE HeapPop(gc.candidates)

\* a faulty variant: a popped pair with a node already contracted is kept
PairIsLiveAlways(pair) == TRUE

PairIsLive(pair) == HasNode(pair[1]) /\ HasNode(pair[2])

\* invalid - either node already contracted
GCDiscard ==
    /\ gc.pc = "loop" /\ MoreToContract(Len(gc.nodes))
    /\ ~PairIsLive(NextPair)
    /\ gc' = [gc EXCEPT !.candidates = AfterPop]
    /\ UNCHANGED <<engineVars, pl, harnessVars, hashVars, reuseVars, hg0, gs>>

\* the entries of F whose pair is live and is not scored again by the pushes T
StillFresh(F, live, T) ==
    {c \in F : /\ {c[2], c[3]} \subseteq live
               /\ \A t \in T : <<t[2], t[3]>> # <<c[2], c[3]>>}

\* d[i12] = combine(d.pop(i1), d.pop(i2))
PopPopSet(d, i1, i2, i12, v) ==
    [i \in (DOMAIN d \ {i1, i2}) \cup {i12} |-> IF i = i12 THEN v ELSE d[i]]

\* a faulty variant: the larger subgraph size is kept
CombineSizesMax(a, b) == Max(a, b)

\* self.sgsizes.pop(i1) + self.sgsizes.pop(i2)
CombineSizes(a, b) == a + b

\* a faulty variant: the contracted node takes the id of its first part
ContractedIdReused == NextPair[1]

\* the id hg.contract gives the new node: the next unused one
ContractedId == gc.next

GCContract ==
    /\ gc.pc = "loop" /\ MoreToContract(Len(gc.nodes))
    /\ PairIsLive(NextPair)
    /\ LET i1 == NextPair[1]
           i2 == NextPair[2]
           i12 == ContractedId
           es == ContractEdges(gc.edges, i1, i2, i12)
           T == Pushes({e \in es : i12 \in e})
           live == Append(SelectSeq(gc.nodes, LAMBDA x : x \notin {i1, i2}),
                          i12)
       IN \E sc \in [T -> Scores] :
             gc' = [gc EXCEPT
                 !.nodes = live,
                 !.edges = es,
                 !.candidates = AfterPop (+) Entries(T, sc),
                 !.ssapath = Append(@, <<i1, i2>>),
                 !.sgsizes = PopPopSet(@, i1, i2, i12,
                                       CombineSizes(@[i1], @[i2])),
                 !.sgcents = PopPopSet(@, i1, i2, i12, Max(@[i1], @[i2])),
                 !.next = @ + 1,
                 !.fresh = StillFresh(@, Range(live), T)
                               \cup BagToSet(Entries(T, sc))]
    /\ UNCHANGED <<engineVars, pl, harnessVars, hashVars, reuseVars, hg0, gs>>

\* the end of the loop: the closing step names the nodes that are left
GCClose ==
    /\ gc.pc = "loop" /\ ~MoreToContract(Len(gc.nodes))
    /\ gc' = [gc EXCEPT !.pc = "done", !.ssapath = Append(@, gc.nodes)]
    /\ UNCHANGED <<engineVars, pl, harnessVars, hashVars, reuseVars, hg0, gs>>

InitCompressed ==
    /\ hg0 \in {h \in ValidHypergraphs : h.output_nodes = {}}
    /\ gc = GCInitial(hg0)
    /\ gs = [pc |-> "off"]
    /\ NewEngine(FALSE, 1, NoLimit, NoTraining)
    /\ calls = {} /\ log_completions = FALSE
    /\ NoPipeline /\ NoHarness /\ NoHash /\ NoReuse

NextCompressed ==
    \/ GCPopulate
    \/ GCDiscard
    \/ GCContract
    \/ GCClose

SpecCompressed == InitCompressed /\ [][NextCompressed]_vars

\* the problems of up to MaxFairEdges indices; ssa_path is one sequential
\* call: it runs as long as it has a step to take
InitCompressedFair ==
    /\ InitCompressed
    /\ Cardinality(hg0.edges) <= MaxFairEdges

SpecCompressedFair ==
    InitCompressedFair /\ [][NextCompressed]_vars /\ WF_vars(NextCompressed)

(***************************************************************************)
(* GreedySpan.ssa_path                                                     *)
(*                                                                         *)
(* gs.region is the oset in its order, gs.candidates the list, gs.merges   *)
(* the dict as a function on its keys, gs.seq the list of pairs.  The      *)
(* centralities and the scores of _sorter are not modelled: the seed of an *)
(* empty output is any node and the candidate popped is any candidate.     *)
(* distances are hop counts from the region's seeds.  gs.absorbed lists    *)
(* the nodes the loop added to the region.                                 *)
(***************************************************************************)
Reverse(q) == [i \in 1..Len(q) |-> q[Len(q) + 1 - i]]
Abs(x) == IF x < 0 THEN -x ELSE x
SortedSeq(S) == SortedInts(CHOOSE t \in [1..Cardinality(S) -> S] : Range(t) = S)

RECURSIVE Ball(_, _, _)
\* the nodes within d hops of a node of R
Ball(edges, R, d) ==
    IF d = 0 THEN R
    ELSE LET b == Ball(edges, R, d - 1)
         IN b \cup UNION {Neighbors(edges, i) : i \in b}

\* hg.simple_distance(region): of every node that can be reached
Distances(h, R) ==
    [i \in Reach(h.edges, R) |->
        CHOOSE d \in 0..h.n :
            /\ i \in Ball(h.edges, R, d)
            /\ d = 0 \/ i \notin Ball(h.edges, R, d - 1)]

DistanceSteals == {"abs", "rel", ""}

GSInitial(steal) ==
    [pc |-> "init", distance_steal |-> steal, region |-> <<>>,
     candidates |-> <<>>, merges |-> <<>>, distances |-> <<>>, seq |-> <<>>,
     o_nodes |-> <<>>, o_live |-> {}, absorbed |-> <<>>, ssapath |-> <<>>]

\* the regions ssa_path can start from
Seeds(h) ==
    IF h.output_nodes # {} THEN {SortedSeq(h.output_nodes)}
    ELSE {<<i>> : i \in NodeIds(h.n)}

\* the start of ssa_path, up to the contraction of three or more seeds
GSSeed ==
    /\ gs.pc = "init"
    /\ \E region \in Seeds(hg0) :
          gs' = [gs EXCEPT
              !.region = region,
              !.distances = Distances(hg0, Range(region)),
              !.seq = IF Len(region) = 2 THEN <<region>> ELSE <<>>,
              !.o_nodes = IF Len(region) > 2 THEN region ELSE <<>>,
              !.o_live = IF Len(region) > 2 THEN 0..(Len(region) - 1) ELSE {},
              !.pc = IF Len(region) > 2 THEN "seeds" ELSE "scan"]
    /\ UNCHANGED <<engineVars, pl, harnessVars, hashVars, reuseVars, hg0, gc>>

\* one pair (pi, pj) of the SSA path that ssa_greedy_optimize found for the
\* seeds: any two of the operands not yet contracted
GSSeedMerge ==
    /\ gs.pc = "seeds" /\ Cardinality(gs.o_live) > 1
    /\ \E pi \in gs.o_live, pj \in gs.o_live :
          /\ pi # pj
          /\ gs' = [gs EXCEPT
                 !.merges = [x \in DOMAIN gs.merges \cup {gs.o_nodes[pi + 1]} |->
                                IF x = gs.o_nodes[pi + 1]
                                THEN gs.o_nodes[pj + 1] ELSE gs.merges[x]],
                 !.seq = Append(@, <<gs.o_nodes[pi + 1], gs.o_nodes[pj + 1]>>),
                 !.o_nodes = Append(@, gs.o_nodes[pj + 1]),
                 !.o_live = (@ \ {pi, pj}) \cup {Len(gs.o_nodes)}]
    /\ UNCHANGED <<engineVars, pl, harnessVars, hashVars, reuseVars, hg0, gc>>

GSSeedsDone ==
    /\ gs.pc = "seeds" /\ Cardinality(gs.o_live) <= 1
    /\ gs' = [gs EXCEPT !.seq = Reverse(@), !.pc = "scan"]
    /\ UNCHANGED <<engineVars, pl, harnessVars, hashVars, reuseVars, hg0, gc>>

\* whether _check_candidate gives i_neighbor the new target i_surface
Steals(st, i_surface, i_neighbor) ==
    LET i_current == st.merges[i_neighbor]
        d == st.distances
    IN IF st.distance_steal = "abs" THEN d[i_surface] < d[i_current]
       ELSE IF st.distance_steal = "rel"
       THEN Abs(d[i_surface] - d[i_neighbor])
                > Abs(d[i_current] - d[i_neighbor])
       ELSE FALSE

\* a faulty variant: a neighbor that is a candidate already is listed again
CheckCandidateAgain(st, i_surface, i_neighbor) ==
    IF i_neighbor \in Range(st.region) THEN st
    ELSE [st EXCEPT
             !.merges = [x \in DOMAIN st.merges \cup {i_neighbor} |->
                            IF x = i_neighbor THEN i_surface ELSE st.merges[x]],
             !.candidates = Append(@, i_neighbor)]

\* a faulty variant: a neighbor inside the region is treated like any other
CheckCandidateRegionToo(st, i_surface, i_neighbor) ==
    IF i_neighbor \in DOMAIN st.merges
    THEN IF Steals(st, i_surface, i_neighbor)
         THEN [st EXCEPT !.merges[i_neighbor] = i_surface]
         ELSE st
    ELSE [st EXCEPT
             !.merges = [x \in DOMAIN st.merges \cup {i_neighbor} |->
                            IF x = i_neighbor THEN i_surface ELSE st.merges[x]],
             !.candidates = Append(@, i_neighbor)]

\* _check_candidate(i_surface, i_neighbor)
CheckCandidate(st, i_surface, i_neighbor) ==
    IF i_neighbor \in Range(st.region) THEN st
    ELSE IF i_neighbor \in DOMAIN st.merges
    THEN IF Steals(st, i_surface, i_neighbor)
         THEN [st EXCEPT !.merges[i_neighbor] = i_surface]
         ELSE st
    ELSE [st EXCEPT
             !.merges = [x \in DOMAIN st.merges \cup {i_neighbor} |->
                            IF x = i_neighbor THEN i_surface ELSE st.merges[x]],
             !.candidates = Append(@, i_neighbor)]

RECURSIVE CheckAll(_, _, _)
\* for j in hg.neighbors(i): _check_candidate(i, j)
CheckAll(st, i, js) ==
    IF js = <<>> THEN st
    ELSE CheckAll(CheckCandidate(st, i, Head(js)), i, Tail(js))

CheckNeighbors(st, i) == CheckAll(st, i, SortedSeq(Neighbors(hg0.edges, i)))

RECURSIVE ScanRegion(_, _)
\* for i in region: for j in hg.neighbors(i): _check_candidate(i, j)
ScanRegion(st, is) ==
    IF is = <<>> THEN st
    ELSE ScanRegion(CheckNeighbors(st, Head(is)), Tail(is))

GSScan ==
    /\ gs.pc = "scan"
    /\ gs' = [ScanRegion(gs, gs.region) EXCEPT !.pc = "grow"]
    /\ UNCHANGED <<engineVars, pl, harnessVars, hashVars, reuseVars, hg0, gc>>

\* one iteration of `while candidates`
GSAbsorb ==
    /\ gs.pc = "grow" /\ gs.candidates # <<>>
    /\ \E c \in 1..Len(gs.candidates) :
          LET i_surface == gs.candidates[c]
              popped == [gs EXCEPT !.candidates = RemoveAt(@, c),
                                   !.region = Append(@, i_surface)]
              checked == CheckNeighbors(popped, i_surface)
          IN gs' = [checked EXCEPT
                 !.seq = Append(@, <<i_surface, checked.merges[i_surface]>>),
                 !.absorbed = Append(@, i_surface)]
    /\ UNCHANGED <<engineVars, pl, harnessVars, hashVars, reuseVars, hg0, gc>>

RECURSIVE ToSsaStale(_, _, _)
\* a faulty variant: node2ssa[j] keeps the id it had
ToSsaStale(pairs, node2ssa, ssa) ==
    IF pairs = <<>> THEN <<>>
    ELSE <<(<<node2ssa[Head(pairs)[1]], node2ssa[Head(pairs)[2]]>>)>>
            \o ToSsaStale(Tail(pairs), node2ssa, ssa + 1)

RECURSIVE ToSsa(_, _, _)
\* the pairs of seq in SSA ids, node2ssa[j] being the id of each new node
ToSsa(pairs, node2ssa, ssa) ==
    IF pairs = <<>> THEN <<>>
    ELSE LET i == Head(pairs)[1]
             j == Head(pairs)[2]
         IN <<(<<node2ssa[i], node2ssa[j]>>)>>
            \o ToSsa(Tail(pairs), [node2ssa EXCEPT ![j] = ssa], ssa + 1)

\* the end of the loop: seq is reversed and turned into the SSA path
GSFinish ==
    /\ gs.pc = "grow" /\ gs.candidates = <<>>
    /\ gs' = [gs EXCEPT
           !.seq = Reverse(@),
           !.ssapath = ToSsa(Reverse(gs.seq), [i \in NodeIds(hg0.n) |-> i],
                             hg0.n),
           !.pc = "done"]
    /\ UNCHANGED <<engineVars, pl, harnessVars, hashVars, reuseVars, hg0, gc>>

InitSpan ==
    /\ hg0 \in ValidHypergraphs
    /\ \E steal \in DistanceSteals : gs = GSInitial(steal)
    /\ gc = [pc |-> "off"]
    /\ NewEngine(FALSE, 1, NoLimit, NoTraining)
    /\ calls = {} /\ log_completions = FALSE
    /\ NoPipeline /\ NoHarness /\ NoHash /\ NoReuse

NextSpan ==
    \/ GSSeed
    \/ GSSeedMerge
    \/ GSSeedsDone
    \/ GSScan
    \/ GSAbsorb
    \/ GSFinish

SpecSpan == InitSpan /\ [][NextSpan]_vars

\* problems large enough for a target to be stolen under 'rel': no output
\* index, every index on two operands
StealGraphs ==
    {[n |-> StealNodes, edges |-> es, output_nodes |-> {}] :
        es \in {e \in SUBSET Pairs(NodeIds(StealNodes)) :
                  Cardinality(e) <= StealEdges}}

InitSteal ==
    /\ hg0 \in StealGraphs
    /\ \E steal \in {"abs", "rel"} : gs = GSInitial(steal)
    /\ gc = [pc |-> "off"]
    /\ NewEngine(FALSE, 1, NoLimit, NoTraining)
    /\ calls = {} /\ log_completions = FALSE
    /\ NoPipeline /\ NoHarness /\ NoHash /\ NoReuse

NextSteal ==
    \/ GSSeed
    \/ GSScan
    \/ GSAbsorb
    \/ GSFinish

SpecSteal == InitSteal /\ [][NextSteal]_vars

(***************************************************************************)
(* A sequential engine and then a parallel engine, constructed alike and   *)
(* given the same settings and the same trial outcomes.                     *)
(***************************************************************************)
OkOutcomes == {o \in Outcomes : o.ok}

\* entry i of the six history lists
HistoryEntry(i) ==
    [method |-> method_choices[i], params |-> param_choices[i],
     score |-> scores[i], flops |-> costs_flops[i],
     write |-> costs_write[i], size |-> costs_size[i]]
HistoryTrials == {HistoryEntry(i) : i \in 1..Len(scores)}

InitEquiv ==
    /\ NewEngine(FALSE, EquivRepeats, NoLimit, NoTraining)
    /\ calls = {1} /\ log_completions = FALSE
    /\ script \in [1..EquivRepeats -> OkOutcomes]
    /\ seq_run = <<>>
    /\ NoPipeline /\ NoHash /\ NoReuse /\ NoGreedy

\* the sequential run is kept and HyperOptimizer(parallel=True) is constructed
Reconstruct ==
    /\ pc = "returned" /\ ~parallel /\ seq_run = <<>>
    /\ seq_run' = <<[trials |-> HistoryTrials, best |-> best]>>
    /\ parallel' = TRUE
    /\ method_choices' = <<>> /\ param_choices' = <<>> /\ scores' = <<>>
    /\ costs_flops' = <<>> /\ costs_write' = <<>> /\ costs_size' = <<>>
    /\ best' = InitBest /\ best_score' = Cardinality(Jitters) * Inf
    /\ pc' = "init" /\ gen' = "for" /\ k' = 0 /\ trial' = InitBest
    /\ elapsed' = 0 /\ futures' = <<>> /\ ncalls' = 0 /\ r_start' = 0
    /\ nraised' = 0 /\ failed' = 0
    /\ fut' = <<>> /\ done_log' = <<>> /\ ngets' = 0 /\ reports' = <<>>
    /\ UNCHANGED <<max_repeats, max_time, max_training_steps, calls,
                   log_completions, script, hashVars, reuseVars, greedyVars, pl>>

NextEquiv ==
    \/ StartSearch
    \/ SeqTrial
    \/ Submit
    \/ Complete
    \/ Report
    \/ Exhausted
    \/ Record
    \/ MaybeCancelFutures
    \/ Reconstruct

SpecEquiv == InitEquiv /\ [][NextEquiv]_vars

(***************************************************************************)
(* Properties of HyperOptimizer._search                                    *)
(***************************************************************************)
\* ids of the trials recorded in the history, and of the trials this call asked for
RecordedIds == {param_choices[i] : i \in 1..Len(scores)}
CallIds == (ngets - k + 1)..ngets

MinScore == CHOOSE m \in Range(scores) : \A x \in Range(scores) : m <= x
FirstIndexOf(m) ==
    CHOOSE i \in 1..Len(scores) :
        scores[i] = m /\ \A h \in 1..(i - 1) : scores[h] # m

IsPrefix(s, t) == Len(s) <= Len(t) /\ SubSeq(t, 1, Len(s)) = s

HistoryLengths ==
    {Len(method_choices), Len(param_choices), Len(scores),
     Len(costs_flops), Len(costs_write), Len(costs_size)}

C1_BestIsEarliestMin ==
    Len(scores) > 0 =>
        /\ best.score = MinScore
        /\ best.id = param_choices[FirstIndexOf(MinScore)]
C1_BestStep ==
    /\ best'.score <= best.score
    /\ best' # best => best'.score < best.score

\* C1: once a trial is recorded, `best` is the earliest recorded trial whose
\* score is the minimum of the history; `best` is replaced only by a strictly
\* lower score, so the best score never increases, also across search() calls.
C1_BestTracking == [](C1_BestIsEarliestMin) /\ [][C1_BestStep]_vars

\* in the second call a trial tied with the best of the first call, and the
\* earlier one was kept
C1_Witness ==
    /\ pc = "returned" /\ ncalls = 2
    /\ \E i \in 1..r_start, j \in (r_start + 1)..Len(scores) :
          /\ scores[i] = best.score /\ scores[j] = best.score
          /\ best.id = param_choices[i]

ZeroLimit == [kind |-> "fixed", val |-> 0]

\* C2: with max_time = 0 and max_repeats > 1 a search() call that leaves its
\* loop has recorded at least one trial and fewer than max_repeats trials.
C2_ZeroTimeLimit ==
    (pc \in {"exit", "returned"} /\ max_time = ZeroLimit /\ max_repeats > 1) =>
        /\ Len(scores) - r_start >= 1
        /\ Len(scores) - r_start < max_repeats

C2_Witness ==
    /\ pc = "returned" /\ ncalls = 2 /\ parallel
    /\ max_time = ZeroLimit /\ max_repeats > 1
    /\ Len(scores) = r_start + 1

C3_Appended ==
    (pc = "returned" /\ max_time.kind = "none") =>
        /\ Len(scores) = r_start + max_repeats
        /\ HistoryLengths = {Len(scores)}
        /\ nraised = 0 => Len(scores) = ncalls * max_repeats
C3_Extends ==
    /\ IsPrefix(scores, scores')
    /\ IsPrefix(costs_flops, costs_flops')
    /\ IsPrefix(costs_write, costs_write')
    /\ IsPrefix(costs_size, costs_size')

\* C3: with no time limit a search() call that returns has appended exactly
\* max_repeats entries to the scores and costs, in either mode; earlier
\* entries never change, so k calls leave k * max_repeats entries.
C3_RepeatsAppended == [](C3_Appended) /\ [][C3_Extends]_vars

C3_Witness ==
    /\ pc = "returned" /\ max_time.kind = "none" /\ parallel
    /\ ncalls = 2 /\ nraised = 0 /\ max_repeats = MaxRepeats
    /\ Len(scores) = 2 * MaxRepeats

\* C4: whenever the scan of a parallel search reports a future, that future
\* is the one that completed first among the held futures that are done.
C4_CompletionOrder ==
    [][(parallel /\ pc = "loop" /\ pc' \in {"body", "raised"})
          => Head(done_log) \notin Held(futures')]_vars

\* C5: when a parallel search() returns, its queue of futures is empty,
\* cancel() was called on every future of the call that was not reported, and
\* no future cancel() was called on is in the history or was reported to the
\* sampler.
C5_CancelOnExit ==
    (pc = "returned" /\ parallel) =>
        /\ futures = <<>>
        /\ \A f \in CallIds :
              /\ f \notin RecordedIds => fut[f].cancel_called
              /\ fut[f].cancel_called =>
                    /\ f \notin Range(param_choices)
                    /\ f \notin Range(reports)

\* the time limit ended the loop with one future done and one still pending
C5_Witness ==
    /\ pc = "returned" /\ parallel
    /\ \E f, g \in CallIds :
          /\ fut[f].state = "done" /\ fut[f].cancel_called
          /\ fut[g].state = "cancelled"

C7_NoEntryForFailed ==
    pc = "raised" =>
        /\ failed \in CallIds
        /\ failed \notin Range(param_choices)
        /\ failed \notin Range(reports)
        /\ HistoryLengths = {Len(scores)}
\* a call that returns recorded every trial it collected
C7_NoneSkipped ==
    pc = "returned" =>
        \A f \in CallIds :
            \/ f \in RecordedIds
            \/ parallel /\ fut[f].cancel_called
C7_NothingAfterRaise ==
    pc' = "raised" =>
        /\ UNCHANGED <<method_choices, param_choices, scores, costs_flops,
                       costs_write, costs_size, reports, best>>
        /\ pc = "raised" => ngets' = ngets

\* C7 as stated: whenever search() returns, none of the trials the call asked
\* for has raised.
C7_EveryFailureRaises ==
    /\ C7_NoEntryForFailed
    /\ C7_NoneSkipped
    /\ (pc = "returned" /\ parallel) =>
          \A f \in CallIds : fut[f].state = "done" => fut[f].outcome.ok

\* C7, amended: a trial whose exception reaches the engine (the sequential
\* trial call raises, or the scan collects a future whose result raises) makes
\* search() raise; the failing trial adds no entry to a history list and is
\* not reported to the sampler, a call that returns has recorded every trial
\* it collected, and after the raise the call asks for and records nothing.
\* A failed future not yet collected when the loop ends on the time limit is
\* cancelled and dropped like any other.
C7_CollectedFailureRaises ==
    [](C7_NoEntryForFailed /\ C7_NoneSkipped) /\ [][C7_NothingAfterRaise]_vars

\* a parallel search raised after it had recorded a trial
C7_Witness ==
    /\ pc = "raised" /\ parallel
    /\ Len(scores) > r_start
    /\ fut[failed].state = "done" /\ ~fut[failed].outcome.ok


BothRan == pc = "returned" /\ parallel /\ seq_run # <<>>
MinAttainedOnce ==
    Cardinality({i \in 1..Len(scores) : scores[i] = MinScore}) = 1

BothHashed == key1 # <<>> /\ key2 # <<>>

\* C9: in hash mode 'b' two problems that differ by a consistent renaming of
\* the index labels get the same key.
C9_RenamingSameKey ==
    (BothHashed /\ hash_method = "b" /\ relation = "renamed") => key1 = key2

\* C10: two size maps with equal sizes for the same labels get the same key,
\* whatever the numeric type of each value.
C10_TypeBlindKey ==
    (BothHashed /\ relation = "retyped") => key1 = key2


(***************************************************************************)
(* Properties of the cache of ReusableHyperOptimizer                       *)
(***************************************************************************)
\* the call of e is a __call__ that found its key in the cache, overwrite unset
CachedCall(e) ==
    rop[e] = "call" /\ ~overwrite[e] /\ rh[e] \in DOMAIN snap[e].cache

\* C8: with overwrite unset, a __call__ on a problem whose key is in the cache
\* returns the path stored under the key, constructs no HyperOptimizer and
\* leaves the cache as it was.
C8_CachedCallReturnsStored ==
    [][\A e \in ReuseEngines :
          (CachedCall(e) /\ rpc[e] # "idle" /\ rpc'[e] = "idle") =>
              /\ rret'[e] = [kind |-> "path", path |-> snap[e].cache[rh[e]].path]
              /\ cache' = snap[e].cache
              /\ n_opts' = snap[e].n_opts]_vars

\* a second call, on another problem of the same key, has returned the path
\* the first call stored
C8_Witness ==
    /\ rpc["e1"] = "idle" /\ rcalls["e1"] = 2 /\ CachedCall("e1")
    /\ rprob["e1"] = ProblemB
    /\ n_opts = 1 /\ rret["e1"].kind = "path"
    /\ rret["e1"].path = cache[rh["e1"]].path


\* a call of e that found its key missing, or ran with overwrite set, returns
ReturnsAfterMiss(e) ==
    rpc[e] = "stored" /\ rpc'[e] = "idle"

\* the call ran one HyperOptimizer, constructed for it, and the cache holds
\* under the key of the call the path and sliced indices that optimizer found
FreshSearchStored(e) ==
    /\ rmissing[e] = (overwrite[e] \/ rh[e] \notin DOMAIN snap[e].cache)
    /\ n_opts = snap[e].n_opts + 1 /\ opt[e] = n_opts
    /\ rh[e] \in DOMAIN cache /\ cache[rh[e]] = rresult[e]
    /\ rresult[e].path.n = Len(rprob[e].inputs)
    /\ rresult[e].path.tree \in Trees
    /\ DOMAIN cache = DOMAIN snap[e].cache \cup {rh[e]}

\* a call whose key is missing, or that runs with overwrite set, does not
\* return by the hit branch
MissNeverSkipsSearch(e) ==
    (rpc[e] = "queried" /\ rpc'[e] = "idle" /\ rret'[e].kind # "raised") =>
        (~overwrite[e] /\ rh[e] \in DOMAIN cache)

\* an entry of the cache stays as it is, unless cleanup removes it
EntriesKept ==
    \A h \in DOMAIN cache :
        h \in DOMAIN cache' => cache'[h] = cache[h]

\* C11: a call on a missing key, or any call with overwrite set, runs a fresh
\* HyperOptimizer and stores its path and sliced indices under the key; with
\* overwrite unset an entry once stored is not rewritten by later calls, and
\* leaves the cache only by cleanup.
C11_MissStoresHitKeeps ==
    /\ [][\A e \in ReuseEngines :
             /\ ReturnsAfterMiss(e) => FreshSearchStored(e)
             /\ MissNeverSkipsSearch(e)]_vars
    /\ [][(~overwrite["e1"]) =>
             /\ EntriesKept
             /\ (DOMAIN cache \subseteq DOMAIN cache') \/ cache' = <<>>]_vars

\* with overwrite set, a second call on a cached key has stored the path of
\* its own search, another one than the first call stored
C11_Witness ==
    /\ rpc["e1"] = "idle" /\ rcalls["e1"] = 2 /\ overwrite["e1"]
    /\ rh["e1"] \in DOMAIN snap["e1"].cache
    /\ n_opts = 2 /\ rret["e1"].kind \in {"path", "tree"}
    /\ cache[rh["e1"]] = rresult["e1"]
    /\ cache[rh["e1"]] # snap["e1"].cache[rh["e1"]]


(***************************************************************************)
(* Properties of two engines on one cache                                  *)
(***************************************************************************)
\* both engines were called on problems of one key that was not cached
RacedOnUncached ==
    \A e \in ReuseEngines : rcalls[e] = 1 /\ rh[e] = rh["e1"]

\* the results computed for a key
ComputedFor(h) == {c[2] : c \in {d \in computed : d[1] = h}}

\* no search of the two calls raised
NoSearchRaised == \A e \in ReuseEngines : rret[e].kind # "raised"

\* C12 (state part): of two engines called on one uncached key, a call that
\* has returned has returned a path computed for the key, and once both have
\* returned the cache holds an entry computed for the key.
C12_RaceReturns ==
    (RacedOnUncached /\ NoSearchRaised) =>
        /\ \A e \in ReuseEngines :
              (rpc[e] = "idle") =>
                  /\ rret[e].kind \in {"path", "tree"}
                  /\ rret[e].path \in {c.path : c \in ComputedFor(rh[e])}
        /\ (\A e \in ReuseEngines : rpc[e] = "idle") =>
              /\ DOMAIN cache = {rh["e1"]}
              /\ cache[rh["e1"]] \in ComputedFor(rh["e1"])

\* a call under way can take its next step, whatever the other engine did
CanStep(e) ==
    \/ rpc[e] = "idle"
    \/ rpc[e] = "queried" /\ (rmissing[e] \/ rh[e] \in DOMAIN cache)
    \/ rpc[e] = "computed"
    \/ rpc[e] = "stored" /\ rh[e] \in DOMAIN cache

\* the cache changes only by a write, and then holds under the written key
\* the result of the writer
LastWriterWins ==
    /\ (cache' # cache) =>
           \E e \in ReuseEngines : rpc[e] = "computed" /\ rpc'[e] = "stored"
    /\ \A e \in ReuseEngines :
           (rpc[e] = "computed" /\ rpc'[e] = "stored") =>
               /\ DOMAIN cache' = DOMAIN cache \cup {rh[e]}
               /\ cache'[rh[e]] = rresult[e]
               /\ \A h \in DOMAIN cache \ {rh[e]} : cache'[h] = cache[h]

\* C12: two engines on one cache, called concurrently on one uncached
\* problem: in every interleaving both calls complete and return a path
\* computed for the key, and the cache ends with the entry written last.
C12_RaceLastWriterWins ==
    /\ [](C12_RaceReturns)
    /\ [](\A e \in ReuseEngines : CanStep(e))
    /\ [][LastWriterWins]_vars

\* both engines searched, the second write replaced the first, and the engine
\* that wrote first returned the path of the other
C12_Witness ==
    /\ RacedOnUncached /\ NoSearchRaised
    /\ \A e \in ReuseEngines : rpc[e] = "idle" /\ rmissing[e] /\ ~overwrite[e]
    /\ n_opts = 2
    /\ rop["e1"] = "call" /\ rop["e2"] = "call"
    /\ rresult["e1"] # rresult["e2"]
    /\ cache[rh["e1"]] = rresult["e2"]
    /\ rret["e1"].path = rresult["e2"].path


(***************************************************************************)
(* Properties of the greedy path finders                                   *)
(***************************************************************************)
\* C13: for n >= 2 operands, connected or not, GreedyCompressed.ssa_path
\* returns n-1 steps: n-2 pairwise contractions and one closing step that
\* lists the nodes still live, exactly 2 of them.
C13_CompressedPathLength ==
    (gc.pc = "done") =>
        /\ Len(gc.ssapath) = hg0.n - 1
        /\ \A s \in 1..(hg0.n - 2) : Len(gc.ssapath[s]) = 2
        /\ Last(gc.ssapath) = gc.nodes
        /\ Len(gc.nodes) = 2 /\ gc.nodes[1] # gc.nodes[2]

\* a disconnected problem of the most operands whose path is complete, some
\* of its contractions taken from the heap and some by the fallback
C13_Witness ==
    /\ gc.pc = "done" /\ hg0.n = MaxNodes
    /\ hg0.edges # {} /\ ~Connected(hg0)
    /\ Len(gc.ssapath) = hg0.n - 1


\* the operands a path in SSA ids names
OperandsIn(path, n) ==
    {x \in UNION {Range(path[i]) : i \in 1..Len(path)} : x < n}

\* C14: on a connected hypergraph of n nodes GreedySpan.ssa_path ends with
\* every node in the region, every node that was no seed absorbed exactly
\* once, and returns n-1 pairs.
C14_SpanCoversConnected ==
    (gs.pc = "done" /\ Connected(hg0)) =>
        /\ Range(gs.region) = NodeIds(hg0.n)
        /\ Len(gs.region) = hg0.n
        /\ \A i \in NodeIds(hg0.n) :
              Cardinality({c \in 1..Len(gs.absorbed) : gs.absorbed[c] = i})
                  = IF gs.distances[i] = 0 THEN 0 ELSE 1
        /\ Len(gs.ssapath) = hg0.n - 1
        /\ \A c \in 1..Len(gs.ssapath) : Len(gs.ssapath[c]) = 2

\* a connected problem of the most operands, grown from one seed
C14_Witness ==
    /\ gs.pc = "done" /\ Connected(hg0) /\ hg0.n = MaxNodes
    /\ hg0.output_nodes = {}
    /\ Len(gs.absorbed) = hg0.n - 1 /\ Len(gs.ssapath) = hg0.n - 1

\* C15 (GreedySpan): on a disconnected hypergraph the returned path merges
\* every one of the n operands.
C15_SpanMergesAll ==
    (gs.pc = "done" /\ ~Connected(hg0)) =>
        OperandsIn(gs.ssapath, hg0.n) = NodeIds(hg0.n)


(***************************************************************************)
(* The trial function built by setup(): find_tree wrapped by the slicing,  *)
(* the slicing+reconfiguration and the reconfiguration stage, and by       *)
(* ComputeScore.  A dict is a function of its keys; a tree is an object    *)
(* the stages mutate in place, its metrics depend on every mutation.       *)
(***************************************************************************)
\* slicing_opts, slicing_reconf_opts, reconf_opts: None or a dict
NoOpts == [given |-> FALSE, forested |-> FALSE]
StageOpts == {NoOpts} \cup {[given |-> TRUE, forested |-> f] : f \in BOOLEAN}

\* minimize: the name of a score, or a function of the trial
MinimizeNames == {"flops", "write", "size"}
Minimizes == {[callable |-> FALSE, name |-> n] : n \in MinimizeNames}
                \cup {[callable |-> TRUE, name |-> "fn"]}

\* a function of the trial a caller may give as `minimize`
Callable(trial_) == trial_.flops + trial_.size

\* a faulty variant: the key is assigned whether present or not
SetDefaultOverwrite(d, key, v) == (key :> v) @@ d

\* d.setdefault(key, v) and d[key] = v
SetDefault(d, key, v) == d @@ (key :> v)
SetItem(d, key, v) == (key :> v) @@ d

\* a tree as constructed: nothing optimized, nothing mutated yet
NewTree(t) == [shape |-> t, version |-> 0, already_optimized |-> {}]
NoTree == NewTree(0)
\* what a registered path finder may return: a tree as constructed, or one
\* the path finder has reconfigured itself, which carries memoized subtrees
FoundTrees ==
    {NewTree(t) : t \in Trees}
        \cup {[NewTree(t) EXCEPT !.already_optimized = {<<0, FALSE>>}] :
                 t \in Trees}

\* the metrics of a tree as it is now
Current(tree) == tree.shape + MaxTree * tree.version
TreeFlops(tree) == TotalFlops(Current(tree))
TreeWrite(tree) == TotalWrite(Current(tree))
TreeSize(tree) == MaxSize(Current(tree))

\* tree.slice_, tree.subtree_reconfigure_[forest_] and
\* tree.slice_and_reconfigure_[forest_]; a reconfiguration memoizes the
\* subtrees it optimized, a slicing memoizes nothing
Slice(tree) == [tree EXCEPT !.version = @ + 1]
Reconfigure(tree, forested) ==
    [tree EXCEPT !.version = @ + 1,
                 !.already_optimized = @ \cup {<<tree.version, forested>>}]
SliceAndReconfigure(tree, forested) == Reconfigure(Slice(tree), forested)
Clear(tree) == [tree EXCEPT !.already_optimized = {}]

\* the dict find_tree returns
FoundTrial(tree) ==
    [flops |-> TreeFlops(tree), write |-> TreeWrite(tree),
     size |-> TreeSize(tree)]

Originals(trial_, tree) ==
    SetDefault(SetDefault(SetDefault(trial_,
        "original_flops", TreeFlops(tree)),
        "original_write", TreeWrite(tree)),
        "original_size", TreeSize(tree))

Refresh(trial_, tree) ==
    SetItem(SetItem(SetItem(trial_,
        "flops", TreeFlops(tree)),
        "write", TreeWrite(tree)),
        "size", TreeSize(tree))

\* the wrappers, applied to what the wrapped function returned
SlicedTrialFn(trial_, tree) ==
    LET sliced == Slice(tree)
    IN  [trial |-> Refresh(Originals(trial_, tree), sliced), tree |-> sliced]

SlicedReconfTrialFn(trial_, tree, forested) ==
    LET changed == Clear(SliceAndReconfigure(tree, forested))
    IN  [trial |-> Refresh(Originals(trial_, tree), changed), tree |-> changed]

ReconfTrialFn(trial_, tree, forested) ==
    LET changed == Clear(Reconfigure(tree, forested))
    IN  [trial |-> Refresh(Originals(trial_, tree), changed), tree |-> changed]

\* self._score_fn applied to a trial
ScoreWith(score_fn, trial_) ==
    IF score_fn.callable THEN Callable(trial_) ELSE trial_[score_fn.name]

ComputeScoreWith(score_fn, trial_) ==
    SetItem(trial_, "score", Pow(ScoreWith(score_fn, trial_), score_compression))

\* a faulty variant: the reconfiguration wraps find_tree, the slicing wraps it
SetupReconfInner(o) ==
    <<"find_tree">>
        \o (IF o.reconf_opts.given THEN <<"ReconfTrialFn">> ELSE <<>>)
        \o (IF o.slicing_reconf_opts.given
            THEN <<"SlicedReconfTrialFn">> ELSE <<>>)
        \o (IF o.slicing_opts.given THEN <<"SlicedTrialFn">> ELSE <<>>)
        \o <<"ComputeScore">>

\* setup(): the functions of the trial function, the innermost first, which
\* is the order their bodies run in
Setup(o) ==
    <<"find_tree">>
        \o (IF o.slicing_opts.given THEN <<"SlicedTrialFn">> ELSE <<>>)
        \o (IF o.slicing_reconf_opts.given
            THEN <<"SlicedReconfTrialFn">> ELSE <<>>)
        \o (IF o.reconf_opts.given THEN <<"ReconfTrialFn">> ELSE <<>>)
        \o <<"ComputeScore">>

\* HyperOptimizer(minimize=arg, slicing_opts=..., ...) about to be constructed
NewPipeline(arg, so, sro, ro) ==
    [pc |-> "new", arg |-> arg, minimize |-> arg, score_fn |-> arg,
     compressed |-> FALSE, nset |-> 0,
     slicing_opts |-> so, slicing_reconf_opts |-> sro, reconf_opts |-> ro,
     stages |-> <<>>, applied |-> <<>>, trial |-> <<>>, tree |-> NoTree]

\* __init__: the setter of minimize accepts a function, the test
\* 'compressed' in minimize is a substring test of a name and raises
\* TypeError for a function
PLConstruct ==
    /\ pl.pc = "new"
    /\ pl' = IF pl.arg.callable
             THEN [pl EXCEPT !.pc = "TypeError"]
             ELSE [pl EXCEPT !.pc = "ready", !.compressed = FALSE]
    /\ UNCHANGED <<engineVars, harnessVars, hashVars, reuseVars, greedyVars>>

\* opt.minimize = m
PLSetMinimize ==
    /\ pl.pc = "ready" /\ pl.nset = 0
    /\ \E m \in Minimizes :
          pl' = [pl EXCEPT !.minimize = m, !.score_fn = m, !.nset = 1]
    /\ UNCHANGED <<engineVars, harnessVars, hashVars, reuseVars, greedyVars>>

PLSetup ==
    /\ pl.pc = "ready"
    /\ pl' = [pl EXCEPT !.pc = "run", !.stages = Setup(pl)]
    /\ UNCHANGED <<engineVars, harnessVars, hashVars, reuseVars, greedyVars>>

\* the function of the trial function whose body runs next
Running(name) ==
    /\ pl.pc = "run"
    /\ Len(pl.applied) < Len(pl.stages)
    /\ pl.stages[Len(pl.applied) + 1] = name

PLFindTree ==
    /\ Running("find_tree")
    /\ \E tree \in FoundTrees :
          pl' = [pl EXCEPT !.tree = tree,
                           !.trial = FoundTrial(tree),
                           !.applied = Append(@, "find_tree")]
    /\ UNCHANGED <<engineVars, harnessVars, hashVars, reuseVars, greedyVars>>

PLSliced ==
    /\ Running("SlicedTrialFn")
    /\ LET r == SlicedTrialFn(pl.trial, pl.tree)
       IN  pl' = [pl EXCEPT !.tree = r.tree, !.trial = r.trial,
                            !.applied = Append(@, "SlicedTrialFn")]
    /\ UNCHANGED <<engineVars, harnessVars, hashVars, reuseVars, greedyVars>>

PLSlicedReconf ==
    /\ Running("SlicedReconfTrialFn")
    /\ LET r == SlicedReconfTrialFn(pl.trial, pl.tree,
                                    pl.slicing_reconf_opts.forested)
       IN  pl' = [pl EXCEPT !.tree = r.tree, !.trial = r.trial,
                            !.applied = Append(@, "SlicedReconfTrialFn")]
    /\ UNCHANGED <<engineVars, harnessVars, hashVars, reuseVars, greedyVars>>

PLReconf ==
    /\ Running("ReconfTrialFn")
    /\ LET r == ReconfTrialFn(pl.trial, pl.tree, pl.reconf_opts.forested)
       IN  pl' = [pl EXCEPT !.tree = r.tree, !.trial = r.trial,
                            !.applied = Append(@, "ReconfTrialFn")]
    /\ UNCHANGED <<engineVars, harnessVars, hashVars, reuseVars, greedyVars>>

PLComputeScore ==
    /\ Running("ComputeScore")
    /\ pl' = [pl EXCEPT !.trial = ComputeScoreWith(pl.score_fn, pl.trial),
                        !.applied = Append(@, "ComputeScore"),
                        !.pc = "done"]
    /\ UNCHANGED <<engineVars, harnessVars, hashVars, reuseVars, greedyVars>>

InitPipeline ==
    /\ \E arg \in Minimizes, so \in StageOpts, sro \in StageOpts,
          ro \in StageOpts : pl = NewPipeline(arg, so, sro, ro)
    /\ NewEngine(FALSE, 1, NoLimit, NoTraining)
    /\ calls = {} /\ log_completions = FALSE
    /\ NoHarness /\ NoHash /\ NoReuse /\ NoGreedy

NextPipeline ==
    \/ PLConstruct
    \/ PLSetMinimize
    \/ PLSetup
    \/ PLFindTree
    \/ PLSliced
    \/ PLSlicedReconf
    \/ PLReconf
    \/ PLComputeScore

SpecPipeline == InitPipeline /\ [][NextPipeline]_vars

(***************************************************************************)
(* Properties of the training of the sampler                               *)
(***************************************************************************)
\* the engine takes a completed trial out of its generator
TakesTrial == pc = "loop" /\ pc' = "body"
Reported == reports' = Append(reports, trial'.id)
NotReported == reports' = reports

\* the trial is within the training steps, if any are set
InTraining ==
    ~max_training_steps.set \/ Len(scores) < max_training_steps.val

\* the six history lists end with the values of the trial
HistoryEndsWith(tr) ==
    /\ HistoryLengths = {Len(scores)} /\ Len(scores) > 0
    /\ Last(param_choices) = tr.id
    /\ Last(method_choices) = GetSetting(tr.id).method
    /\ Last(scores) = tr.score
    /\ Last(costs_flops) = tr.flops
    /\ Last(costs_write) = tr.write
    /\ Last(costs_size) = tr.size

\* every completed trial is appended to the history, trained on or not
AlwaysRecorded ==
    /\ TakesTrial => Len(method_choices') = Len(scores) + 1
    /\ (pc = "body") =>
          /\ ENABLED Record
          /\ (pc' # "body") =>
                 Len(scores') = Len(scores) + 1 /\ HistoryEndsWith(trial)'

Called == pl.pc \in {"run", "done"}
StageNames == {"SlicedTrialFn", "SlicedReconfTrialFn", "ReconfTrialFn"}
StageRank(name) ==
    CASE name = "find_tree"           -> 0
      [] name = "SlicedTrialFn"       -> 1
      [] name = "SlicedReconfTrialFn" -> 2
      [] name = "ReconfTrialFn"       -> 3
      [] name = "ComputeScore"        -> 4
Supplied(name) ==
    CASE name = "SlicedTrialFn"       -> pl.slicing_opts.given
      [] name = "SlicedReconfTrialFn" -> pl.slicing_reconf_opts.given
      [] name = "ReconfTrialFn"       -> pl.reconf_opts.given
      [] OTHER                        -> TRUE
HasRun(name) == \E i \in 1..Len(pl.applied) : pl.applied[i] = name

\* C17: the stages run in the order slicing, slicing+reconfiguration,
\* reconfiguration, with the scoring last; a stage whose options are None
\* never runs, and the scoring always runs.
C17_StageOrder ==
    Called =>
        /\ \A i, j \in 1..Len(pl.applied) :
              i < j => StageRank(pl.applied[i]) < StageRank(pl.applied[j])
        /\ \A name \in StageNames : HasRun(name) => Supplied(name)
        /\ pl.pc = "done" =>
              /\ \A name \in StageNames : Supplied(name) => HasRun(name)
              /\ pl.applied[Len(pl.applied)] = "ComputeScore"
              /\ "score" \in DOMAIN pl.trial

\* a call with the three stages supplied has returned
C17_Witness ==
    /\ pl.pc = "done"
    /\ pl.applied = <<"find_tree", "SlicedTrialFn", "SlicedReconfTrialFn",
                      "ReconfTrialFn", "ComputeScore">>

\* the tree as the path finder returned it
RawTree == NewTree(pl.tree.shape)
HasOriginals(p) ==
    {"original_flops", "original_write", "original_size"} \subseteq DOMAIN p.trial
SomeOriginal(p) ==
    {"original_flops", "original_write", "original_size"} \cap DOMAIN p.trial # {}
AStageHasRun == \E name \in StageNames : HasRun(name)

\* C18: original_flops, original_write and original_size are the metrics of
\* the tree the path finder returned: the first stage that runs sets them
\* and no later stage overwrites them.
C18_OriginalsAreRaw ==
    /\ [](Called =>
            /\ SomeOriginal(pl) <=> AStageHasRun
            /\ SomeOriginal(pl) =>
                  /\ HasOriginals(pl)
                  /\ pl.trial.original_flops = TreeFlops(RawTree)
                  /\ pl.trial.original_write = TreeWrite(RawTree)
                  /\ pl.trial.original_size = TreeSize(RawTree))
    /\ [][(Called /\ SomeOriginal(pl)) =>
            /\ HasOriginals(pl')
            /\ pl'.trial.original_flops = pl.trial.original_flops
            /\ pl'.trial.original_write = pl.trial.original_write
            /\ pl'.trial.original_size = pl.trial.original_size]_vars

\* three stages have mutated the tree and the originals differ from the
\* metrics the trial ends with
C18_Witness ==
    /\ pl.pc = "done"
    /\ \A name \in StageNames : HasRun(name)
    /\ pl.trial.original_flops = TreeFlops(RawTree)
    /\ pl.trial.original_flops # pl.trial.flops
    /\ pl.trial.original_size # pl.trial.size

\* a wrapper that mutates the tree returns
WrapperReturns ==
    /\ pl.pc = "run"
    /\ Len(pl'.applied) = Len(pl.applied) + 1
    /\ pl'.applied[Len(pl'.applied)] \in StageNames

\* C19: when the slicing wrapper or a reconfiguration wrapper returns, the
\* tree memoizes no optimized subtree and flops, write and size of the trial
\* are the metrics of the tree as it is now.
C19_WrappersClearAndRefresh ==
    [][WrapperReturns =>
          /\ pl'.tree.already_optimized = {}
          /\ pl'.trial.flops = TreeFlops(pl'.tree)
          /\ pl'.trial.write = TreeWrite(pl'.tree)
          /\ pl'.trial.size = TreeSize(pl'.tree)]_vars

\* C20: a HyperOptimizer given a function as `minimize` is constructed, and
\* the score of every trial of it is the function applied to the trial,
\* raised to score_compression.
C20_CallableMinimize ==
    (pl.pc # "off" /\ pl.arg.callable) =>
        /\ pl.pc # "TypeError"
        /\ pl.pc = "done" /\ pl.score_fn.callable =>
              pl.trial.score = Pow(Callable(pl.trial), score_compression)


(***************************************************************************)
(* Properties of the window of pending futures                             *)
(***************************************************************************)
\* C21: in parallel mode no more than pre_dispatch futures are ever pending,
\* and a trial is submitted only while fewer than pre_dispatch are pending.
C21_WindowBounded ==
    /\ [](parallel => Len(futures) <= PreDispatch)
    /\ [][(parallel /\ ngets' = ngets + 1) =>
            /\ Len(futures) < PreDispatch
            /\ Len(futures') = Len(futures) + 1]_vars

\* the window was full, a future was reported and the next trial submitted
C21_Witness ==
    /\ parallel /\ pc = "loop" /\ gen = "wait"
    /\ Len(futures) = PreDispatch
    /\ k = PreDispatch + 1

(***************************************************************************)
(* Properties of the candidate heap of GreedyCompressed                    *)
(***************************************************************************)
GCLooping == gc.pc = "loop" /\ gc'.pc = "loop"
GCSame(field) == gc'[field] = gc[field]
\* the ids the steps of a path name, and how many places name them
IdsIn(path) == UNION {Range(path[i]) : i \in 1..Len(path)}
RECURSIVE Places(_)
Places(path) ==
    IF path = <<>> THEN 0 ELSE Len(Head(path)) + Places(Tail(path))

\* C22: a popped candidate that names a node that no longer exists is dropped
\* and nothing but the heap changes; the two nodes of every pair appended to
\* the path are live when they are contracted, and no node id is named by
\* more than one step of the path.
C22_StaleDiscardedLivePaired ==
    /\ [][GCLooping =>
            /\ ~PairIsLive(NextPair) =>
                  /\ GCSame("nodes") /\ GCSame("edges") /\ GCSame("ssapath")
                  /\ GCSame("sgsizes") /\ GCSame("sgcents")
                  /\ gc'.candidates = HeapPop(gc.candidates)
            /\ gc'.ssapath # gc.ssapath =>
                  /\ gc'.ssapath = Append(gc.ssapath, NextPair)
                  /\ NextPair[1] # NextPair[2]
                  /\ {NextPair[1], NextPair[2]} \subseteq Range(gc.nodes)
                  /\ Range(gc'.nodes) \cap {NextPair[1], NextPair[2]} = {}]_vars
    /\ [](gc.pc \in {"loop", "done"} =>
            Cardinality(IdsIn(gc.ssapath)) = Places(gc.ssapath))

\* a candidate was dropped as stale and the path was completed after it
C22_Witness ==
    /\ gc.pc = "done" /\ hg0.n = MaxNodes
    /\ gc.candidates # EmptyBag
    /\ \E c \in BagToSet(gc.candidates) : ~PairIsLive(<<c[2], c[3]>>)
    /\ Cardinality(IdsIn(gc.ssapath)) = 2 * (hg0.n - 1)

\* a contraction is selected by the entry popped from the heap
SelectsFromHeap ==
    /\ GCLooping /\ gc'.ssapath # gc.ssapath
    /\ gc.candidates # EmptyBag

\* C23: when a pair of live nodes has several entries in the heap, the entry
\* with the score computed last for the pair is popped before the older
\* ones: the entry that selects a contraction is never an outdated one.
C23_FreshestPoppedFirst ==
    [][SelectsFromHeap => HeapMin(gc.candidates) \in gc.fresh]_vars

\* the steps an iteration of the loop can be
DropsEntry ==
    /\ gc.candidates # EmptyBag
    /\ gc'.candidates = HeapPop(gc.candidates)
    /\ GCSame("nodes") /\ GCSame("ssapath")
ContractsLive ==
    /\ PairIsLive(NextPair) /\ NextPair[1] # NextPair[2]
    /\ Len(gc'.nodes) = Len(gc.nodes) - 1
    /\ gc'.ssapath = Append(gc.ssapath, NextPair)

\* C24: GreedyCompressed.ssa_path terminates: an iteration of its loop drops
\* one entry of the heap without contracting, or contracts two live nodes,
\* which leaves one node less; entries are pushed only by a contraction, and
\* with an empty heap and more than 2 nodes two live nodes are contracted.
C24_CompressedTerminates ==
    /\ <>(gc.pc = "done")
    /\ [][GCLooping =>
            /\ DropsEntry \/ ContractsLive
            /\ ~ContractsLive =>
                  BagCardinality(gc'.candidates) < BagCardinality(gc.candidates)
            /\ (gc.candidates = EmptyBag /\ Len(gc.nodes) > 2) => ContractsLive]_vars

\* a path completed by the fallback after the heap had run empty of a
\* problem in two parts
C24_Witness ==
    /\ gc.pc = "done" /\ hg0.n = MaxNodes
    /\ gc.candidates = EmptyBag
    /\ hg0.edges # {} /\ ~Connected(hg0)
    /\ gc.next = 2 * hg0.n - 2

(***************************************************************************)
(* Properties of the accumulators of GreedyCompressed                      *)
(***************************************************************************)
RECURSIVE Leaves(_)
\* the operands merged into node i: step s of the path makes node n + s - 1
Leaves(i) ==
    IF i < hg0.n THEN {i}
    ELSE LET step == gc.ssapath[i - hg0.n + 1]
         IN  Leaves(step[1]) \cup Leaves(step[2])
RECURSIVE SumOver(_, _)
SumOver(f, S) ==
    IF S = {} THEN 0
    ELSE LET x == CHOOSE x \in S : TRUE IN f[x] + SumOver(f, S \ {x})

\* C25: at the head of every iteration of the loop the keys of sgsizes and
\* of sgcents are the live nodes, the subgraph size of a live node is the
\* number of operands merged into it, and the subgraph sizes sum to n.
C25_AccumulatorsFollowNodes ==
    (gc.pc = "loop") =>
        /\ DOMAIN gc.sgsizes = Range(gc.nodes)
        /\ DOMAIN gc.sgcents = Range(gc.nodes)
        /\ \A i \in Range(gc.nodes) : gc.sgsizes[i] = Cardinality(Leaves(i))
        /\ SumOver(gc.sgsizes, Range(gc.nodes)) = hg0.n

\* at the head of the last iteration one node holds three of the operands
C25_Witness ==
    /\ gc.pc = "loop" /\ hg0.n = MaxNodes /\ Len(gc.nodes) = 2
    /\ \E i \in Range(gc.nodes) : gc.sgsizes[i] = MaxNodes - 1

(***************************************************************************)
(* Properties of the candidates of GreedySpan                              *)
(***************************************************************************)
Occurrences(q, x) == Cardinality({i \in 1..Len(q) : q[i] = x})
Absorbs == gs.pc = "grow" /\ gs'.pc = "grow"
Absorbed == gs'.absorbed[Len(gs'.absorbed)]

\* C26: every node of the candidate list is outside the region, is listed
\* once and has one merge target, a node of the region; the pair recorded
\* when a candidate is absorbed is the candidate and its target then.
C26_CandidatesTargetRegion ==
    /\ [](gs.pc \in {"grow", "done"} =>
            \A c \in Range(gs.candidates) :
                /\ c \notin Range(gs.region)
                /\ Occurrences(gs.candidates, c) = 1
                /\ c \in DOMAIN gs.merges
                /\ gs.merges[c] \in Range(gs.region))
    /\ [][Absorbs =>
            /\ Absorbed \in Range(gs.candidates)
            /\ gs'.region = Append(gs.region, Absorbed)
            /\ gs'.merges[Absorbed] = gs.merges[Absorbed]
            /\ gs'.seq = Append(gs.seq, <<Absorbed, gs.merges[Absorbed]>>)]_vars

\* two candidates wait, one of them with a node absorbed by the loop as target
C26_Witness ==
    /\ gs.pc = "grow" /\ Len(gs.candidates) >= 2 /\ gs.absorbed # <<>>
    /\ \E c \in Range(gs.candidates) : gs.merges[c] \in Range(gs.absorbed)
    /\ \E c \in Range(gs.candidates) : gs.merges[c] \notin Range(gs.absorbed)

\* the distance gap between a candidate and a target
Gap(c, target) == Abs(gs.distances[target] - gs.distances[c])
\* the candidates whose target a step has changed
Stolen == {c \in DOMAIN gs.merges \cap DOMAIN gs'.merges :
              gs'.merges[c] # gs.merges[c]}

\* C27: with distance_steal = 'rel' the target of a candidate is changed to
\* the node just absorbed only when this makes the distance gap between the
\* candidate and its target smaller, so a steal never makes the gap larger.
C27_RelStealShrinksGap ==
    [][(gs.distance_steal = "rel" /\ Absorbs) =>
          \A c \in Stolen :
              /\ gs'.merges[c] = Absorbed
              /\ Gap(c, gs'.merges[c]) < Gap(c, gs.merges[c])]_vars

\* C28: the path GreedySpan.ssa_path returns is a well-formed SSA path: the
\* k-th pair (from 0) names two different ids, each an operand below n or
\* the id n + j made by an earlier pair j < k, and no id is named twice.
C28_SpanPathIsSsa ==
    (gs.pc = "done") =>
        /\ \A p \in 1..Len(gs.ssapath) :
              /\ Len(gs.ssapath[p]) = 2
              /\ gs.ssapath[p][1] # gs.ssapath[p][2]
              /\ \A x \in Range(gs.ssapath[p]) :
                    0 <= x /\ x < hg0.n + (p - 1)
        /\ Cardinality(IdsIn(gs.ssapath)) = 2 * Len(gs.ssapath)

\* a complete path of the most operands with a pair of two intermediates
C28_Witness ==
    /\ gs.pc = "done" /\ hg0.n = MaxNodes
    /\ Len(gs.ssapath) = hg0.n - 1
    /\ \E p \in 1..Len(gs.ssapath) :
          gs.ssapath[p][1] >= hg0.n /\ gs.ssapath[p][2] >= hg0.n


(***************************************************************************)
(* Sequential mode: one trial at a time                                    *)
(***************************************************************************)

\* the time limit as the loop body sees it once the trial is recorded
TimeLimitTripped ==
    \/ max_time.kind = "fixed" /\ elapsed > max_time.val
    \/ max_time.kind = "rate" /\ elapsed * max_time.val > best.flops

AllRecorded == HistoryLengths = {Len(scores)}

\* get_setting is called with every earlier trial of the call recorded and the
\* limit checked; a check that trips ends the loop
C29_OneAtATime ==
    ~parallel =>
        /\ ngets' # ngets =>
              /\ ngets' = ngets + 1 /\ k' = k + 1
              /\ pc = "loop" /\ AllRecorded
              /\ Len(scores) - r_start = k
        /\ (pc = "body" /\ pc' # "body") =>
              /\ Len(scores') = Len(scores) + 1
              /\ pc' = IF TimeLimitTripped' THEN "exit" ELSE "loop"
        /\ pc = "exit" => ngets' = ngets

C29_Balanced ==
    (~parallel /\ pc \in {"exit", "returned"}) =>
        /\ k = Len(scores) - r_start
        /\ AllRecorded

\* C29: in sequential mode the sampler is asked for the next setting only after
\* the trial before it has been run, reported, recorded and the time limit
\* checked; once the limit trips no further setting is requested, and when the
\* call returns it has made as many get_setting calls as it added history
\* entries.
C29_SequentialSerialized == [](C29_Balanced) /\ [][C29_OneAtATime]_vars

\* a second sequential call returned on its time limit, before its repeats
\* were used up, having recorded a trial of its own
C29_Witness ==
    /\ ~parallel /\ pc = "returned" /\ ncalls = 2
    /\ k < max_repeats /\ k > 0
    /\ k = Len(scores) - r_start
    /\ TimeLimitTripped


(***************************************************************************)
(* The six history lists                                                   *)
(***************************************************************************)

Quiescent == pc \in {"init", "returned", "raised"}

\* entry i of the six lists is one trial: the setting asked for it and the
\* costs and score of the tree that setting gave
Describes(i) ==
    /\ method_choices[i] = GetSetting(param_choices[i]).method
    /\ \E t \in Trees :
          LET tr == TrialFn(param_choices[i], t)
          IN /\ scores[i] = tr.score
             /\ costs_flops[i] = tr.flops
             /\ costs_write[i] = tr.write
             /\ costs_size[i] = tr.size
             /\ (parallel /\ i > r_start) =>
                   /\ fut[param_choices[i]].state = "done"
                   /\ fut[param_choices[i]].outcome = [ok |-> TRUE, tree |-> t]

C30_Aligned ==
    Quiescent =>
        /\ HistoryLengths = {Len(scores)}
        /\ \A i \in 1..Len(scores) : Describes(i)

C30_AppendOnly ==
    /\ IsPrefix(method_choices, method_choices')
    /\ IsPrefix(param_choices, param_choices')
    /\ IsPrefix(scores, scores')
    /\ IsPrefix(costs_flops, costs_flops')
    /\ IsPrefix(costs_write, costs_write')
    /\ IsPrefix(costs_size, costs_size')

\* C30: before a call of search(), after it returns and after it raises, the
\* six history lists have the same length and entry i of each belongs to the
\* same trial; every step leaves each list as it was or appends to it.
C30_HistoryListsAligned == [](C30_Aligned) /\ [][C30_AppendOnly]_vars

\* a second parallel call raised after recording a trial that was not the
\* first it submitted, on top of the entries of the first call
C30_Witness ==
    /\ pc = "raised" /\ parallel /\ ncalls = 2
    /\ r_start > 0 /\ Len(scores) > r_start
    /\ param_choices[r_start + 1] > ngets - k + 1
    /\ HistoryLengths = {Len(scores)}


(***************************************************************************)
(* The setting kept on the best trial                                      *)
(***************************************************************************)

HasBest == best.id # 0

\* the history entries of the trial that is the best
BestEntries == {i \in 1..Len(scores) : param_choices[i] = best.id}

\* C31: in both modes, and in every order in which the futures complete, the
\* method and the params kept on `best` are those of the setting whose trial
\* became the best: the setting get_setting gave for it, the one recorded
\* with its score, and in parallel mode the one its future was submitted with.
C31_BestKeepsItsSetting ==
    HasBest =>
        /\ best.params = GetSetting(best.id)
        /\ \E i \in BestEntries :
              /\ best.params.method = method_choices[i]
              /\ best.score = scores[i] /\ best.flops = costs_flops[i]
        /\ (parallel /\ best.id \in CallIds) =>
              fut[best.id].outcome = [ok |-> TRUE, tree |-> best.tree]

\* a parallel call returned with a best trial that was not recorded in the
\* place it was submitted in, and that replaced an earlier best
C31_Witness ==
    /\ pc = "returned" /\ parallel /\ HasBest
    /\ best.id \in CallIds
    /\ \E i \in BestEntries : i # best.id /\ i > 1
    /\ best.params = GetSetting(best.id)


(***************************************************************************)
(* The futures left when a parallel search() ends                          *)
(***************************************************************************)

Ended == pc \in {"returned", "raised"}

\* the futures of the call that were submitted and never collected by the scan
NotCollected ==
    {f \in CallIds : f \notin RecordedIds /\ ~(pc = "raised" /\ f = failed)}

\* C32: whenever a parallel search() has ended, by a return or by the
\* exception of a future, cancel() has been called on every future of the call
\* that was submitted and not reported, and the queue of futures is empty.
C32_CancelledOnEveryEnd ==
    (parallel /\ Ended) =>
        /\ futures = <<>>
        /\ \A f \in NotCollected : fut[f].cancel_called


(***************************************************************************)
(* Cache keys and the number of operands                                   *)
(***************************************************************************)

SameKey == BothHashed /\ key1 = key2

\* C33: in either hash mode two problems with the same cache key have the
\* same number of input operands, so a path stored under the key merges
\* exactly the operands of any problem that hits it.
C33_SameKeySameOperands ==
    SameKey => Len(prob1.inputs) = Len(prob2.inputs)

=============================================================================
